---- MODULE Spec2Model ----
(***************************************************************************)
(* GoTyolo: seat inventory and booking lifecycle.                          *)
(*                                                                         *)
(* The store is PostgreSQL at READ COMMITTED.  Every request handler and   *)
(* every per-booking step of the expiry job runs one transaction on its    *)
(* own pooled client.  A step of the model runs a handler from one point  *)
(* where it can wait for, or be seen by, another transaction (taking a row *)
(* lock, COMMIT, ROLLBACK) to the next; the statements in between touch    *)
(* only rows the transaction has locked.                                   *)
(* A transaction's writes are kept in tx[p] and reach trips/bookings when  *)
(* it commits; row locks (SELECT ... FOR UPDATE, UPDATE) are held until    *)
(* the transaction ends.  Any statement may be rejected by the store.      *)
(*                                                                         *)
(* The clock counts abstract ticks; money is counted in cents.             *)
(***************************************************************************)
EXTENDS Integers, Sequences, FiniteSets, TLC

\* ---- bounds of the model ------------------------------------------------
NumProcs == 2       \* concurrent requests / job runs
MaxCap == 2         \* largest max_capacity of a trip
MaxBookings == 1    \* booking rows that admitted create requests may insert
MaxTime == 2        \* last clock tick

\* ---- program constants (in clock ticks) ---------------------------------
expiryMinutes == 1  \* BOOKING_EXPIRY_MINUTES, the payment window
msPerDay == 2       \* length of a day

Procs == 1..NumProcs
TripIds == {1, 2}
NoTrip == Cardinality(TripIds) + 1 \* a trip id no row has
BookingIds == 1..(MaxBookings + NumProcs)
NoBooking == MaxBookings + NumProcs + 1 \* a booking id no row ever has
NULL == 0 - 1                     \* SQL NULL of a numeric / timestamp column

VARIABLES
  trips,        \* committed rows of table trips, by id
  bookings,     \* committed rows of table bookings; the id is the index
  tripLock,     \* trip id -> process holding the row lock, 0 if none
  bookingLock,  \* booking id -> process holding the row lock, 0 if none
  now,          \* the clock
  op,           \* process -> the handler it runs
  pc,           \* process -> the await it is at
  args,         \* process -> the request
  loc,          \* process -> the handler's local variables
  tx,           \* process -> the uncommitted writes of its transaction
  stale,        \* process -> rows of findExpiredPending still to process
  resp,         \* process -> the response the handler has decided on
  out           \* the response written by the last step, if it ended a request

db == <<trips, bookings>>
locks == <<tripLock, bookingLock>>
procVars == <<op, pc, args, loc, tx, stale, resp>>
vars == <<trips, bookings, tripLock, bookingLock, now, op, pc, args, loc, tx, stale,
          resp, out>>

\* ---- values -------------------------------------------------------------
NoArgs == [none |-> TRUE]
NoRow == [id |-> 0]
NoWrite == [kind |-> "none"]
NoTx == [start |-> NULL, trip |-> 0, delta |-> 0, bk |-> NoWrite]
NoResp == [code |-> 0, body |-> "", err |-> FALSE]

NoOut == [op |-> "none", resp |-> NoResp]

Response(code, body) == [code |-> code, body |-> body, err |-> FALSE]

Upd(f, p, v) == [f EXCEPT ![p] = v]

Min(a, b) == IF a <= b THEN a ELSE b

\* ---- the schema (db/migrate.js) -----------------------------------------
\* CHECK constraints of table trips
trips_check(r) ==
  /\ r.price >= 0
  /\ r.max_capacity > 0
  /\ r.available_seats >= 0
  /\ r.cancellation_fee_percent >= 0 /\ r.cancellation_fee_percent <= 100
  /\ r.available_seats <= r.max_capacity

\* CHECK and UNIQUE constraints of table bookings, for a row being inserted
bookings_check(r) ==
  /\ r.num_seats > 0
  /\ r.price_at_booking >= 0
  /\ \A i \in 1..Len(bookings) : bookings[i].idempotency_key # r.idempotency_key

\* ---- row locks ------------------------------------------------------------
\* Variant: the row is read without FOR UPDATE, so nobody waits.
RowLockFree_noLock(holder, p) == TRUE

\* A row lock can be taken by p when no other transaction holds it.
RowLockFree(holder, p) == holder = 0 \/ holder = p

\* ---- TripService ----------------------------------------------------------
\* INSERT INTO trips: available_seats starts at max_capacity.
TripService_create(data) ==
  [ max_capacity |-> data.max_capacity,
    available_seats |-> data.max_capacity,
    status |-> data.status,
    price |-> data.price,
    start_date |-> data.start_date,
    refundable_until_days_before |-> data.refundable_until_days_before,
    cancellation_fee_percent |-> data.cancellation_fee_percent ]

\* SELECT * FROM trips WHERE id = $1 FOR UPDATE
TripService_getByIdForUpdate(tripId) ==
  IF tripId \in DOMAIN trips THEN [id |-> tripId] @@ trips[tripId] ELSE NoRow

\* Variant: the UPDATE subtracts one seat whatever $2 is.
decrementSeats_byOne(tripId, numSeats) ==
  LET cur == trips[tripId].available_seats IN
  IF cur >= numSeats
    THEN [rowCount |-> 1, available_seats |-> cur - 1]
    ELSE [rowCount |-> 0, available_seats |-> cur]

\* UPDATE trips SET available_seats = available_seats - $2
\*  WHERE id = $1 AND available_seats >= $2
decrementSeats(tripId, numSeats) ==
  LET cur == trips[tripId].available_seats IN
  IF cur >= numSeats
    THEN [rowCount |-> 1, available_seats |-> cur - numSeats]
    ELSE [rowCount |-> 0, available_seats |-> cur]

\* Variant: one seat is given back, whatever numSeats is.
incrementSeats_byOne(tripId, numSeats) ==
  LET cur == trips[tripId].available_seats IN
  [rowCount |-> 1,
   available_seats |-> Min(cur + 1, trips[tripId].max_capacity)]

\* UPDATE trips SET available_seats = LEAST(available_seats + $2, max_capacity)
incrementSeats(tripId, numSeats) ==
  LET cur == trips[tripId].available_seats IN
  [rowCount |-> 1,
   available_seats |-> Min(cur + numSeats, trips[tripId].max_capacity)]

\* ---- BookingService -------------------------------------------------------
\* uuidv4(): a key no committed row and no pending insert carries
uuidv4 ==
  LET used == {bookings[i].idempotency_key[2] : i \in 1..Len(bookings)}
                 \cup {tx[q].bk.rec.idempotency_key[2] :
                         q \in {q \in Procs : tx[q].bk.kind = "insert"}}
  IN <<"uuid", CHOOSE n \in 1..(Cardinality(used) + 1) : n \notin used>>

\* INSERT INTO bookings (...) VALUES ($1, $2, $3, 'PENDING_PAYMENT', $4, $5, $6)
BookingService_create(data) ==
  [ trip_id |-> data.trip_id,
    user_id |-> data.user_id,
    num_seats |-> data.num_seats,
    state |-> "PENDING_PAYMENT",
    price_at_booking |-> data.price_at_booking,
    idempotency_key |-> data.idempotency_key,
    expires_at |-> data.expires_at,
    payment_reference |-> "",
    cancelled_at |-> NULL,
    refund_amount |-> NULL ]

\* Variant: the policy columns of the trip are not joined; the policy a trip
\* gets by default applies (7 days, 10 percent).
BookingService_getByIdForUpdate_defaultPolicy(bookingId) ==
  IF bookingId \in 1..Len(bookings)
    THEN LET b == bookings[bookingId]
             t == trips[b.trip_id] IN
         [ id |-> bookingId,
           trip_start_date |-> t.start_date,
           refundable_until_days_before |-> 7,
           cancellation_fee_percent |-> 10 ] @@ b
    ELSE NoRow

\* SELECT b.*, t.start_date, t.refundable_until_days_before,
\*        t.cancellation_fee_percent FROM bookings b JOIN trips t ... FOR UPDATE OF b
BookingService_getByIdForUpdate(bookingId) ==
  IF bookingId \in 1..Len(bookings)
    THEN LET b == bookings[bookingId]
             t == trips[b.trip_id] IN
         [ id |-> bookingId,
           trip_start_date |-> t.start_date,
           refundable_until_days_before |-> t.refundable_until_days_before,
           cancellation_fee_percent |-> t.cancellation_fee_percent ] @@ b
    ELSE NoRow

\* Variant: the UPDATE applies only when $2 is the booking's own
\* idempotency_key.
confirmBooking_keyed(bookingId, paymentReference) ==
  IF /\ bookingId \in 1..Len(bookings)
     /\ bookings[bookingId].state = "PENDING_PAYMENT"
     /\ bookings[bookingId].idempotency_key = paymentReference
    THEN [kind |-> "update", id |-> bookingId,
          rec |-> [bookings[bookingId] EXCEPT !.state = "CONFIRMED",
                                              !.payment_reference = paymentReference]]
    ELSE NoWrite

\* Variant: the UPDATE sets the state only.
confirmBooking_stateOnly(bookingId, paymentReference) ==
  IF bookingId \in 1..Len(bookings) /\ bookings[bookingId].state = "PENDING_PAYMENT"
    THEN [kind |-> "update", id |-> bookingId,
          rec |-> [bookings[bookingId] EXCEPT !.state = "CONFIRMED"]]
    ELSE NoWrite

\* UPDATE bookings SET state = 'CONFIRMED', payment_reference = $2
\*  WHERE id = $1 AND state = 'PENDING_PAYMENT' RETURNING *
confirmBooking(bookingId, paymentReference) ==
  IF bookingId \in 1..Len(bookings) /\ bookings[bookingId].state = "PENDING_PAYMENT"
    THEN [kind |-> "update", id |-> bookingId,
          rec |-> [bookings[bookingId] EXCEPT !.state = "CONFIRMED",
                                              !.payment_reference = paymentReference]]
    ELSE NoWrite

\* UPDATE bookings SET state = 'EXPIRED'
\*  WHERE id = $1 AND state = 'PENDING_PAYMENT' RETURNING *
expireBooking(bookingId) ==
  IF bookingId \in 1..Len(bookings) /\ bookings[bookingId].state = "PENDING_PAYMENT"
    THEN [kind |-> "update", id |-> bookingId,
          rec |-> [bookings[bookingId] EXCEPT !.state = "EXPIRED"]]
    ELSE NoWrite

\* Variant: the UPDATE does not set cancelled_at.
cancelBooking_noTimestamp(bookingId, refundAmount, txStart) ==
  IF /\ bookingId \in 1..Len(bookings)
     /\ bookings[bookingId].state \in {"PENDING_PAYMENT", "CONFIRMED"}
    THEN [kind |-> "update", id |-> bookingId,
          rec |-> [bookings[bookingId] EXCEPT !.state = "CANCELLED",
                                              !.refund_amount = refundAmount]]
    ELSE NoWrite

\* Variant: the UPDATE also takes the refund off price_at_booking.
cancelBooking_repriced(bookingId, refundAmount, txStart) ==
  IF /\ bookingId \in 1..Len(bookings)
     /\ bookings[bookingId].state \in {"PENDING_PAYMENT", "CONFIRMED"}
    THEN [kind |-> "update", id |-> bookingId,
          rec |-> [bookings[bookingId] EXCEPT !.state = "CANCELLED",
                                              !.cancelled_at = txStart,
                                              !.refund_amount = refundAmount,
                                              !.price_at_booking = @ - refundAmount]]
    ELSE NoWrite

\* UPDATE bookings SET state = 'CANCELLED', cancelled_at = NOW(), refund_amount = $2
\*  WHERE id = $1 AND state IN ('PENDING_PAYMENT', 'CONFIRMED') RETURNING *
\* NOW() is the start time of the transaction.
cancelBooking(bookingId, refundAmount, txStart) ==
  IF /\ bookingId \in 1..Len(bookings)
     /\ bookings[bookingId].state \in {"PENDING_PAYMENT", "CONFIRMED"}
    THEN [kind |-> "update", id |-> bookingId,
          rec |-> [bookings[bookingId] EXCEPT !.state = "CANCELLED",
                                              !.cancelled_at = txStart,
                                              !.refund_amount = refundAmount]]
    ELSE NoWrite

\* Variant: a booking counts as stale from the instant expires_at on.
findExpiredPending_atDeadline ==
  {i \in 1..Len(bookings) :
     bookings[i].state = "PENDING_PAYMENT" /\ bookings[i].expires_at <= now}

\* Variant: the comparison with NOW() is the wrong way round.
findExpiredPending_future ==
  {i \in 1..Len(bookings) :
     bookings[i].state = "PENDING_PAYMENT" /\ bookings[i].expires_at > now}

\* SELECT id, trip_id, num_seats FROM bookings
\*  WHERE state = 'PENDING_PAYMENT' AND expires_at < NOW()
findExpiredPending ==
  {i \in 1..Len(bookings) :
     bookings[i].state = "PENDING_PAYMENT" /\ bookings[i].expires_at < now}

\* ---- transactions ---------------------------------------------------------
\* Variant: the UPDATE of available_seats is not made visible by the COMMIT.
CommittedTrips_lost(p) == trips

\* The rows of trips and bookings after p's transaction commits.
CommittedTrips(p) ==
  IF tx[p].trip = 0 THEN trips
  ELSE [trips EXCEPT ![tx[p].trip].available_seats = @ + tx[p].delta]

\* Variant: the write of the booking row is not made visible by the COMMIT.
CommittedBookings_lost(p) == bookings

CommittedBookings(p) ==
  CASE tx[p].bk.kind = "insert" -> Append(bookings, tx[p].bk.rec)
    [] tx[p].bk.kind = "update" -> [bookings EXCEPT ![tx[p].bk.id] = tx[p].bk.rec]
    [] OTHER -> bookings

\* Variant: the end of a transaction leaves its row locks in place.
ReleaseLocks_kept(p) == UNCHANGED locks

\* The transaction of p ends (COMMIT, ROLLBACK or a lost connection):
\* every row lock it holds is released.
ReleaseLocks(p) ==
  /\ tripLock' = [t \in DOMAIN tripLock |-> IF tripLock[t] = p THEN 0 ELSE tripLock[t]]
  /\ bookingLock' = [b \in DOMAIN bookingLock |->
                       IF bookingLock[b] = p THEN 0 ELSE bookingLock[b]]

\* ---- initial state --------------------------------------------------------
\* Trip 1 is published, trip 2 is a draft; both were inserted by
\* TripService.create and have no bookings yet.
TripData ==
      [ max_capacity : 1..MaxCap, status : {"PUBLISHED"}, price : {115},
        start_date : {2 * msPerDay}, refundable_until_days_before : {1},
        cancellation_fee_percent : {10} ]
      \X
      [ max_capacity : {1}, status : {"DRAFT"}, price : {2550},
        start_date : {msPerDay}, refundable_until_days_before : {0},
        cancellation_fee_percent : {25} ]

Init ==
  /\ \E d \in TripData :
       trips = [t \in TripIds |-> TripService_create(d[t])]
  /\ \A t \in TripIds : trips_check(trips[t])
  /\ bookings = <<>>
  /\ tripLock = [t \in TripIds |-> 0]
  /\ bookingLock = [b \in BookingIds |-> 0]
  /\ now = 0
  /\ op = [p \in Procs |-> "idle"]
  /\ pc = [p \in Procs |-> "idle"]
  /\ args = [p \in Procs |-> NoArgs]
  /\ loc = [p \in Procs |-> NoRow]
  /\ tx = [p \in Procs |-> NoTx]
  /\ stale = [p \in Procs |-> {}]
  /\ resp = [p \in Procs |-> NoResp]
  /\ out = NoOut

\* ---- the clock ------------------------------------------------------------
Tick ==
  /\ now < MaxTime
  /\ now' = now + 1
  /\ out' = NoOut
  /\ UNCHANGED <<db, locks, procVars>>


\* ---- shared steps of every handler ------------------------------------------
\* The handler returns with response r: its client goes back to the pool and
\* the process is free for the next request.
End(p, o, r) ==
  /\ op' = Upd(op, p, "idle")
  /\ pc' = Upd(pc, p, "idle")
  /\ args' = Upd(args, p, NoArgs)
  /\ loc' = Upd(loc, p, NoRow)
  /\ stale' = Upd(stale, p, {})
  /\ resp' = Upd(resp, p, NoResp)
  /\ out' = [op |-> o, resp |-> r]

\* for (const booking of expired): the expiry job takes the next row, in
\* whatever order the query returned them, or returns after the last one.
\* r is what the run has logged so far.  The function has no return value.
SweepNext(p, r) ==
  IF stale[p] = {}
    THEN End(p, "sweep", [r EXCEPT !.body = "returned"])
    ELSE /\ \E booking \in stale[p] :
              /\ args' = Upd(args, p, booking)
              /\ stale' = Upd(stale, p, stale[p] \ {booking})
         /\ pc' = Upd(pc, p, "lock")
         /\ loc' = Upd(loc, p, NoRow)
         /\ resp' = Upd(resp, p, r)
         /\ out' = NoOut
         /\ UNCHANGED op

\* The transaction of p is over.
AfterTx(p, r) == IF op[p] = "sweep" THEN SweepNext(p, r) ELSE End(p, op[p], r)

\* What a run of the expiry job has to show: expired counts its lines
\* "Expired booking ..." (console.log after a COMMIT), err tells whether it
\* logged "Failed to expire booking ..." (console.error in the catch block),
\* value is what expireStaleBookings returns: it has no return statement
\* with a value, so the promise resolves to undefined.
SweepRun == [code |-> 0, body |-> "", err |-> FALSE, expired |-> 0, value |-> NULL]

\* Variant: the expiry job does not log the booking it expired.
CommitResponse_noLog(p) == resp[p]

\* After COMMIT: the response that was decided; the expiry job logs the
\* booking as expired.
CommitResponse(p) ==
  IF op[p] = "sweep" THEN [resp[p] EXCEPT !.expired = @ + 1] ELSE resp[p]

\* What the handler's catch block answers after its ROLLBACK went through.
\* book, cancel: next(err), the global error handler answers 500.
\* webhook: 200 { received: true }.  expiry job: the error is logged.
CatchResponse(p) ==
  CASE op[p] = "webhook" -> [Response(200, "received") EXCEPT !.err = TRUE]
    [] op[p] = "sweep" -> [resp[p] EXCEPT !.err = TRUE]
    [] OTHER -> [Response(500, "INTERNAL") EXCEPT !.err = TRUE]

\* The handler's promise rejects: the handler writes no response (Express 4
\* leaves the request unanswered; Express 5 hands the rejection to the error
\* handler of index.js, which answers 500).  For the expiry job the exception
\* leaves expireStaleBookings and the run is over.
Thrown == [NoResp EXCEPT !.body = "thrown", !.err = TRUE]

\* const client = await getClient() rejects.  It is awaited outside the try
\* block of the book, cancel and webhook handlers, and outside the try block
\* of the expiry job's loop body.
GetClientFail(p) ==
  /\ \/ /\ pc[p] = "idle"
        /\ \E o \in {"book", "cancel", "webhook"} : End(p, o, Thrown)
     \/ /\ pc[p] = "lock" /\ op[p] = "sweep"
        /\ End(p, "sweep", Thrown)
  /\ UNCHANGED <<db, locks, now, tx>>

\* await client.query('ROLLBACK') on an early return inside the try block;
\* the response was decided before it.
Rollback(p) ==
  /\ pc[p] = "rollback"
  /\ tx' = Upd(tx, p, NoTx)
  /\ ReleaseLocks(p)
  /\ AfterTx(p, resp[p])
  /\ UNCHANGED <<db, now>>

\* await client.query('COMMIT')
Commit(p) ==
  /\ pc[p] = "commit"
  /\ trips' = CommittedTrips(p)
  /\ bookings' = CommittedBookings(p)
  /\ tx' = Upd(tx, p, NoTx)
  /\ ReleaseLocks(p)
  /\ AfterTx(p, CommitResponse(p))
  /\ UNCHANGED now

\* A statement inside the try block (BEGIN, a SELECT ... FOR UPDATE, an
\* UPDATE, the INSERT, an early ROLLBACK) is rejected by the store: control
\* passes to the catch block with the transaction still open.
InTry == {"lock", "increment", "commit", "rollback"}

Fail(p) ==
  /\ pc[p] \in InTry
  /\ pc' = Upd(pc, p, "catch")
  /\ out' = NoOut
  /\ UNCHANGED <<db, locks, now, op, args, loc, tx, stale, resp>>

\* COMMIT is rejected: the connection was lost, and the store either had
\* applied the commit or aborts the transaction.
CommitFail(p) ==
  /\ pc[p] = "commit"
  /\ \/ UNCHANGED db
     \/ trips' = CommittedTrips(p) /\ bookings' = CommittedBookings(p)
  /\ tx' = Upd(tx, p, NoTx)
  /\ ReleaseLocks(p)
  /\ pc' = Upd(pc, p, "catch")
  /\ out' = NoOut
  /\ UNCHANGED <<now, op, args, loc, stale, resp>>

\* catch (err) { await client.query('ROLLBACK'); ... }
Catch(p) ==
  /\ pc[p] = "catch"
  /\ tx' = Upd(tx, p, NoTx)
  /\ ReleaseLocks(p)
  /\ AfterTx(p, CatchResponse(p))
  /\ UNCHANGED <<db, now>>

\* The ROLLBACK of the catch block is rejected too (the connection is gone,
\* the store aborts the transaction): the exception leaves the handler.
CatchFail(p) ==
  /\ pc[p] = "catch"
  /\ tx' = Upd(tx, p, NoTx)
  /\ ReleaseLocks(p)
  /\ End(p, op[p], Thrown)
  /\ UNCHANGED <<db, now>>

\* ---- POST /trips/:tripId/book ------------------------------------------------
\* Request bodies: well-formed ones, one without user_id, one with num_seats 0.
BookRequests ==
  [ tripId : {1}, user_id : {"u1"}, num_seats : 1..MaxCap ]
  \cup [ tripId : {2, NoTrip}, user_id : {"u1"}, num_seats : {1} ]
  \cup { [tripId |-> 1, user_id |-> "", num_seats |-> 1],
         [tripId |-> 1, user_id |-> "u1", num_seats |-> 0] }

\* The request arrives, a client is obtained, the body is checked and BEGIN
\* is sent.  Create requests are admitted while they leave the bookings table
\* within MaxBookings rows.
StartBook(p) ==
  /\ pc[p] = "idle"
  /\ Len(bookings) + Cardinality({q \in Procs : op[q] = "book"}) < MaxBookings
  /\ \E r \in BookRequests :
       IF r.user_id = "" \/ r.num_seats < 1
         THEN /\ out' = [op |-> "book", resp |-> Response(400, "VALIDATION")]
              /\ UNCHANGED <<op, pc, args>>
         ELSE /\ args' = Upd(args, p, r)
              /\ op' = Upd(op, p, "book")
              /\ pc' = Upd(pc, p, "lock")
              /\ out' = NoOut
  /\ UNCHANGED <<db, locks, now, loc, tx, stale, resp>>

\* Variant: the status of the trip is not checked.
BookCheck_noStatus(trip, num_seats) ==
  CASE trip = NoRow -> Response(404, "NOT_FOUND")
    [] trip # NoRow /\ trip.available_seats < num_seats
         -> Response(409, "INSUFFICIENT_SEATS")
    [] OTHER -> NoResp

\* The checks of the locked trip row, in the handler's order: the response
\* of the first one that fails, NoResp when all pass.
\*   if (!trip)                              404 Trip not found
\*   if (trip.status !== 'PUBLISHED')        400 Trip is not published
\*   if (trip.available_seats < num_seats)   409 Not enough seats available
BookCheck(trip, num_seats) ==
  CASE trip = NoRow -> Response(404, "NOT_FOUND")
    [] trip # NoRow /\ trip.status # "PUBLISHED" -> Response(400, "NOT_PUBLISHED")
    [] trip # NoRow /\ trip.status = "PUBLISHED" /\ trip.available_seats < num_seats
         -> Response(409, "INSUFFICIENT_SEATS")
    [] OTHER -> NoResp

\* trip = await TripService.getByIdForUpdate(client, tripId) and the checks
\* of the trip row; then, on the locked row,
\* decremented = await TripService.decrementSeats(client, trip.id, num_seats),
\* expiresAt, and booking = await BookingService.create(client, {...})
BookLock(p) ==
  /\ pc[p] = "lock" /\ op[p] = "book"
  /\ LET trip == TripService_getByIdForUpdate(args[p].tripId)
         num_seats == args[p].num_seats
         refused == BookCheck(trip, num_seats)
     IN
     /\ loc' = Upd(loc, p, trip)
     /\ IF trip = NoRow
          THEN UNCHANGED tripLock
          ELSE /\ RowLockFree(tripLock[trip.id], p)
               /\ tripLock' = Upd(tripLock, trip.id, p)
     /\ IF refused # NoResp
          THEN /\ resp' = Upd(resp, p, refused)
               /\ pc' = Upd(pc, p, "rollback")
               /\ UNCHANGED tx
          ELSE LET r == decrementSeats(trip.id, num_seats)
                   booking == BookingService_create(
                                [trip_id |-> trip.id,
                                 user_id |-> args[p].user_id,
                                 num_seats |-> num_seats,
                                 price_at_booking |-> trip.price * num_seats,
                                 idempotency_key |-> uuidv4,
                                 expires_at |-> now + expiryMinutes])
               IN
               IF r.rowCount = 0
                 THEN /\ resp' = Upd(resp, p, Response(409, "INSUFFICIENT_SEATS"))
                      /\ pc' = Upd(pc, p, "rollback")
                      /\ UNCHANGED tx
               ELSE IF \/ ~trips_check([trips[trip.id] EXCEPT
                                          !.available_seats = r.available_seats])
                       \/ ~bookings_check(booking)
                 THEN /\ pc' = Upd(pc, p, "catch")
                      /\ UNCHANGED <<tx, resp>>
               ELSE /\ tx' = Upd(tx, p,
                         [tx[p] EXCEPT
                            !.trip = trip.id,
                            !.delta = r.available_seats - trips[trip.id].available_seats,
                            !.bk = [kind |-> "insert", id |-> 0, rec |-> booking]])
                    /\ resp' = Upd(resp, p, Response(201, "CREATED"))
                    /\ pc' = Upd(pc, p, "commit")
  /\ out' = NoOut
  /\ UNCHANGED <<db, bookingLock, now, op, args, stale>>

\* ---- seat release shared by cancel, webhook and the expiry job -------------
\* await TripService.incrementSeats(client, booking.trip_id, booking.num_seats)
\* The UPDATE takes the lock of the trip row.
Increment(p) ==
  /\ pc[p] = "increment"
  /\ LET booking == IF op[p] = "sweep" THEN args[p] ELSE loc[p]
         r == incrementSeats(booking.trip_id, booking.num_seats) IN
     /\ RowLockFree(tripLock[booking.trip_id], p)
     /\ tripLock' = Upd(tripLock, booking.trip_id, p)
     /\ IF trips_check([trips[booking.trip_id] EXCEPT
                          !.available_seats = r.available_seats])
          THEN /\ tx' = Upd(tx, p,
                    [tx[p] EXCEPT
                       !.trip = booking.trip_id,
                       !.delta = r.available_seats
                                   - trips[booking.trip_id].available_seats])
               /\ pc' = Upd(pc, p, "commit")
          ELSE /\ pc' = Upd(pc, p, "catch")
               /\ UNCHANGED tx
  /\ out' = NoOut
  /\ UNCHANGED <<db, bookingLock, now, op, args, loc, stale, resp>>

\* ---- POST /bookings/:bookingId/cancel --------------------------------------
\* The request arrives, a client is obtained and BEGIN is sent; NOW() of the
\* transaction is fixed.
StartCancel(p) ==
  /\ pc[p] = "idle"
  /\ \E b \in (1..Len(bookings)) \cup {NoBooking} :
       args' = Upd(args, p, [bookingId |-> b])
  /\ op' = Upd(op, p, "cancel")
  /\ pc' = Upd(pc, p, "lock")
  /\ tx' = Upd(tx, p, [NoTx EXCEPT !.start = now])
  /\ out' = NoOut
  /\ UNCHANGED <<db, locks, now, loc, stale, resp>>

\* Variant: a PENDING_PAYMENT booking whose payment window is over is
\* refused like an expired one.
CancelCheck_deadline(booking) ==
  CASE booking = NoRow -> Response(404, "NOT_FOUND")
    [] booking # NoRow /\ booking.state \in {"CANCELLED", "EXPIRED"}
         -> Response(409, "ALREADY_TERMINAL")
    [] booking # NoRow /\ booking.state = "PENDING_PAYMENT"
         /\ booking.expires_at < now -> Response(409, "ALREADY_TERMINAL")
    [] OTHER -> NoResp

\* Variant: a booking that is already CANCELLED or EXPIRED is not refused
\* by the first check.
CancelCheck_noTerminal(booking) ==
  CASE booking = NoRow -> Response(404, "NOT_FOUND")
    [] booking # NoRow /\ booking.state # "PENDING_PAYMENT"
         /\ booking.state # "CONFIRMED" -> Response(409, "BAD_STATE")
    [] OTHER -> NoResp

\* The checks of the locked row, in the handler's order; NoResp when the
\* booking may be cancelled.
\*   if (!booking)                                              404
\*   if (state === 'CANCELLED' || state === 'EXPIRED')          409
\*   if (state !== 'PENDING_PAYMENT' && state !== 'CONFIRMED')  409
CancelCheck(booking) ==
  CASE booking = NoRow -> Response(404, "NOT_FOUND")
    [] booking # NoRow /\ booking.state \in {"CANCELLED", "EXPIRED"}
         -> Response(409, "ALREADY_TERMINAL")
    [] booking # NoRow /\ booking.state \notin {"CANCELLED", "EXPIRED"}
         /\ booking.state # "PENDING_PAYMENT" /\ booking.state # "CONFIRMED"
         -> Response(409, "BAD_STATE")
    [] OTHER -> NoResp

\* Math.floor((tripStartDate - now) / msPerDay)
DaysUntilTrip(tripStartDate, date) == (tripStartDate - date) \div msPerDay

\* Variant: the day of the cutoff itself still counts as before it.
IsBeforeCutoff_atCutoff(daysUntilTrip, cutoff) == daysUntilTrip >= cutoff

\* isBeforeCutoff = daysUntilTrip > booking.refundable_until_days_before
IsBeforeCutoff(daysUntilTrip, cutoff) == daysUntilTrip > cutoff

\* refundAmount = parseFloat(price_at_booking) * (1 - feePercent / 100);
\* refundAmount = Math.round(refundAmount * 100) / 100;            in cents.
\* The arithmetic is in binary floating point.  When the exact product is
\* not half a cent, the double is far closer to it than to the half cent and
\* Math.round gives the nearest cent.  When the exact product is half a cent,
\* the double lies below the half cent for some operands and on or above it
\* for others (1.15 at 10% gives 103.49999999999999, rounded to 103; 25.55 at
\* 10% gives 2299.5, rounded to 2300): the result is either neighbour.
RefundAmounts(price_at_booking, feePercent) ==
  LET x == price_at_booking * (100 - feePercent) IN
  IF x % 100 = 50
    THEN {x \div 100, x \div 100 + 1}
    ELSE {(x + 50) \div 100}

\* booking = await BookingService.getByIdForUpdate(client, bookingId), the
\* state checks and the refund computation; then, on the locked row,
\* cancelled = await BookingService.cancelBooking(client, booking.id, refundAmount)
CancelLock(p) ==
  /\ pc[p] = "lock" /\ op[p] = "cancel"
  /\ LET booking == BookingService_getByIdForUpdate(args[p].bookingId)
         check == CancelCheck(booking) IN
     /\ IF booking = NoRow
          THEN UNCHANGED bookingLock
          ELSE /\ RowLockFree(bookingLock[booking.id], p)
               /\ bookingLock' = Upd(bookingLock, booking.id, p)
     /\ IF check # NoResp
          THEN /\ loc' = Upd(loc, p, booking)
               /\ resp' = Upd(resp, p, check)
               /\ pc' = Upd(pc, p, "rollback")
               /\ UNCHANGED tx
          ELSE LET daysUntilTrip == DaysUntilTrip(booking.trip_start_date, now)
                   isBeforeCutoff ==
                     IsBeforeCutoff(daysUntilTrip,
                                    booking.refundable_until_days_before)
               IN \E refundAmount \in
                       (IF isBeforeCutoff
                          THEN RefundAmounts(booking.price_at_booking,
                                             booking.cancellation_fee_percent)
                          ELSE {0}) :
                    LET cancelled ==
                          cancelBooking(booking.id, refundAmount, tx[p].start)
                    IN /\ loc' = Upd(loc, p,
                            [daysUntilTrip |-> daysUntilTrip,
                             isBeforeCutoff |-> isBeforeCutoff,
                             refundAmount |-> refundAmount] @@ booking)
                       /\ IF cancelled = NoWrite
                            THEN /\ resp' = Upd(resp, p, Response(409, "NOT_CANCELLED"))
                                 /\ pc' = Upd(pc, p, "rollback")
                                 /\ UNCHANGED tx
                            ELSE /\ tx' = Upd(tx, p, [tx[p] EXCEPT !.bk = cancelled])
                                 /\ resp' = Upd(resp, p, Response(200, "CANCELLED"))
                                 /\ pc' = Upd(pc, p, IF isBeforeCutoff
                                                       THEN "increment" ELSE "commit")
  /\ out' = NoOut
  /\ UNCHANGED <<db, tripLock, now, op, args, stale>>

\* ---- POST /payments/webhook ------------------------------------------------
\* Events the payment provider sends: well-formed ones (a success event may
\* carry a payment_reference), and ones that lack a required field.
Events ==
  [ booking_id : 1..Len(bookings),
    status : {"success", "failed", "other"},
    idempotency_key : {"k1"},
    payment_reference : {""} ]
  \cup
  [ booking_id : (1..Len(bookings)) \cup {NoBooking}, status : {"success"},
    idempotency_key : {"k1"}, payment_reference : {"ref1"} ]
  \cup
  { [booking_id |-> 0, status |-> "success", idempotency_key |-> "k1",
     payment_reference |-> "ref1"],
    [booking_id |-> NoBooking, status |-> "", idempotency_key |-> "k1",
     payment_reference |-> "ref1"],
    [booking_id |-> NoBooking, status |-> "failed", idempotency_key |-> "",
     payment_reference |-> "ref1"] }

\* The event arrives and its required fields are checked; then a client is
\* obtained and BEGIN is sent.
StartWebhook(p) ==
  /\ pc[p] = "idle"
  /\ \E e \in Events :
       IF e.booking_id = 0 \/ e.status = "" \/ e.idempotency_key = ""
         THEN /\ out' = [op |-> "webhook",
                          resp |-> Response(200, "received")]
              /\ UNCHANGED <<op, pc, args>>
         ELSE /\ args' = Upd(args, p, e)
              /\ op' = Upd(op, p, "webhook")
              /\ pc' = Upd(pc, p, "lock")
              /\ out' = NoOut
  /\ UNCHANGED <<db, locks, now, loc, tx, stale, resp>>

\* payment_reference || idempotency_key
PaymentReference(e) ==
  IF e.payment_reference # "" THEN e.payment_reference ELSE e.idempotency_key

\* Variant: the state of the row is not looked at.
WebhookBranch_noStateCheck(booking, status, date) ==
  CASE booking.expires_at < date -> "late"
    [] ~(booking.expires_at < date) /\ status = "success" -> "success"
    [] ~(booking.expires_at < date) /\ status = "failed" -> "failed"
    [] OTHER -> "unknown"

\* Variant: the event's status is looked at before the deadline.
WebhookBranch_statusFirst(booking, status, date) ==
  CASE booking.state # "PENDING_PAYMENT" -> "duplicate"
    [] booking.state = "PENDING_PAYMENT" /\ status = "success" -> "success"
    [] booking.state = "PENDING_PAYMENT" /\ status = "failed" -> "failed"
    [] booking.state = "PENDING_PAYMENT" /\ status \notin {"success", "failed"}
         /\ booking.expires_at < date -> "late"
    [] OTHER -> "unknown"

\* Variant: the deadline is compared with <=.
WebhookBranch_lateAtDeadline(booking, status, date) ==
  CASE booking.state # "PENDING_PAYMENT" -> "duplicate"
    [] booking.state = "PENDING_PAYMENT" /\ booking.expires_at <= date -> "late"
    [] booking.state = "PENDING_PAYMENT" /\ ~(booking.expires_at <= date)
         /\ status = "success" -> "success"
    [] booking.state = "PENDING_PAYMENT" /\ ~(booking.expires_at <= date)
         /\ status = "failed" -> "failed"
    [] OTHER -> "unknown"

\* Variant: every status other than success counts as a failed payment.
WebhookBranch_elseFailed(booking, status, date) ==
  CASE booking.state # "PENDING_PAYMENT" -> "duplicate"
    [] booking.state = "PENDING_PAYMENT" /\ booking.expires_at < date -> "late"
    [] booking.state = "PENDING_PAYMENT" /\ ~(booking.expires_at < date)
         /\ status = "success" -> "success"
    [] OTHER -> "failed"

\* The branch the handler takes for the locked row, in the handler's order:
\*   if (booking.state !== 'PENDING_PAYMENT')                duplicate
\*   if (new Date(booking.expires_at) < new Date())          late
\*   if (status === 'success')                               success
\*   if (status === 'failed')                                failed
\*   otherwise                                               unknown
WebhookBranch(booking, status, date) ==
  CASE booking.state # "PENDING_PAYMENT" -> "duplicate"
    [] booking.state = "PENDING_PAYMENT" /\ booking.expires_at < date -> "late"
    [] booking.state = "PENDING_PAYMENT" /\ ~(booking.expires_at < date)
         /\ status = "success" -> "success"
    [] booking.state = "PENDING_PAYMENT" /\ ~(booking.expires_at < date)
         /\ status = "failed" -> "failed"
    [] OTHER -> "unknown"

\* booking = await BookingService.getByIdForUpdate(client, booking_id); the
\* branch is chosen from the locked row, the clock and the event's status,
\* and its UPDATE of the locked row is sent: expireBooking (late, failed) or
\* confirmBooking (success).  The late branch releases seats only if a row
\* was updated, the failed branch always does.
WebhookLock(p) ==
  /\ pc[p] = "lock" /\ op[p] = "webhook"
  /\ LET booking == BookingService_getByIdForUpdate(args[p].booking_id) IN
     IF booking = NoRow
       THEN /\ loc' = Upd(loc, p, booking)
            /\ UNCHANGED <<bookingLock, tx>>
            /\ resp' = Upd(resp, p, Response(200, "received"))
            /\ pc' = Upd(pc, p, "rollback")
       ELSE LET branch == WebhookBranch(booking, args[p].status, now)
                expired == expireBooking(booking.id)
            IN
            /\ RowLockFree(bookingLock[booking.id], p)
            /\ bookingLock' = Upd(bookingLock, booking.id, p)
            /\ loc' = Upd(loc, p, [branch |-> branch, checked_at |-> now] @@ booking)
            /\ CASE branch = "duplicate" ->
                      /\ resp' = Upd(resp, p, Response(200, "duplicate"))
                      /\ pc' = Upd(pc, p, "rollback")
                      /\ UNCHANGED tx
                 [] branch = "late" ->
                      /\ resp' = Upd(resp, p, Response(200, "expired"))
                      /\ tx' = Upd(tx, p, [tx[p] EXCEPT !.bk = expired])
                      /\ pc' = Upd(pc, p, IF expired # NoWrite
                                            THEN "increment" ELSE "commit")
                 [] branch = "success" ->
                      /\ resp' = Upd(resp, p, Response(200, "CONFIRMED"))
                      /\ tx' = Upd(tx, p,
                           [tx[p] EXCEPT !.bk = confirmBooking(booking.id,
                                                   PaymentReference(args[p]))])
                      /\ pc' = Upd(pc, p, "commit")
                 [] branch = "failed" ->
                      /\ resp' = Upd(resp, p, Response(200, "EXPIRED"))
                      /\ tx' = Upd(tx, p, [tx[p] EXCEPT !.bk = expired])
                      /\ pc' = Upd(pc, p, "increment")
                 [] OTHER ->
                      /\ resp' = Upd(resp, p, Response(200, "received"))
                      /\ pc' = Upd(pc, p, "rollback")
                      /\ UNCHANGED tx
  /\ out' = NoOut
  /\ UNCHANGED <<db, tripLock, now, op, args, stale>>

\* ---- the expiry job: expireStaleBookings -----------------------------------
\* expired = await BookingService.findExpiredPending();
\* if (expired.length === 0) return; otherwise the loop takes its first row
StartSweep(p) ==
  /\ pc[p] = "idle"
  /\ LET expired == {[id |-> i, trip_id |-> bookings[i].trip_id,
                      num_seats |-> bookings[i].num_seats] : i \in findExpiredPending}
     IN IF expired = {}
          THEN /\ out' = [op |-> "sweep",
                           resp |-> [SweepRun EXCEPT !.body = "returned"]]
               /\ UNCHANGED <<op, pc, args, stale, resp>>
          ELSE /\ \E booking \in expired :
                    /\ args' = Upd(args, p, booking)
                    /\ stale' = Upd(stale, p, expired \ {booking})
               /\ op' = Upd(op, p, "sweep")
               /\ pc' = Upd(pc, p, "lock")
               /\ resp' = Upd(resp, p, SweepRun)
               /\ out' = NoOut
  /\ UNCHANGED <<db, locks, now, loc, tx>>

\* findExpiredPending() rejects: the run ends with the exception.
SweepFindFail(p) ==
  /\ pc[p] = "idle"
  /\ out' = [op |-> "sweep", resp |-> Thrown]
  /\ UNCHANGED <<db, locks, now, procVars>>

\* locked = await BookingService.getByIdForUpdate(client, booking.id); if it
\* is still PENDING_PAYMENT, await BookingService.expireBooking(client, booking.id)
SweepLock(p) ==
  /\ pc[p] = "lock" /\ op[p] = "sweep"
  /\ LET locked == BookingService_getByIdForUpdate(args[p].id) IN
     /\ loc' = Upd(loc, p, locked)
     /\ IF locked = NoRow
          THEN /\ UNCHANGED <<bookingLock, tx>>
               /\ pc' = Upd(pc, p, "rollback")
          ELSE /\ RowLockFree(bookingLock[locked.id], p)
               /\ bookingLock' = Upd(bookingLock, locked.id, p)
               /\ IF locked.state # "PENDING_PAYMENT"
                    THEN /\ pc' = Upd(pc, p, "rollback")
                         /\ UNCHANGED tx
                    ELSE /\ tx' = Upd(tx, p, [tx[p] EXCEPT
                                                !.bk = expireBooking(args[p].id)])
                         /\ pc' = Upd(pc, p, "increment")
  /\ out' = NoOut
  /\ UNCHANGED <<db, tripLock, now, op, args, stale, resp>>

\* ---- the system ------------------------------------------------------------
Next ==
  \/ Tick
  \/ \E p \in Procs :
       \/ StartBook(p) \/ BookLock(p)
       \/ StartCancel(p) \/ CancelLock(p)
       \/ StartWebhook(p) \/ WebhookLock(p)
       \/ StartSweep(p) \/ SweepFindFail(p) \/ SweepLock(p)
       \/ Increment(p)
       \/ GetClientFail(p)
       \/ Rollback(p) \/ Commit(p) \/ Fail(p) \/ CommitFail(p)
       \/ Catch(p) \/ CatchFail(p)

Spec == Init /\ [][Next]_vars

\* ---- C1 ----------------------------------------------------------------------
\* C1: for every trip, in every reachable state under any interleaving of
\* create, cancel, webhook and expiry-job steps,
\* 0 <= available_seats <= max_capacity.
C1_SeatsWithinCapacity ==
  \A t \in TripIds :
    /\ 0 <= trips[t].available_seats
    /\ trips[t].available_seats <= trips[t].max_capacity

\* A trip was booked out (available_seats reached 0) and the booking's expiry
\* gave every seat back (available_seats is max_capacity again).
C1_Witness ==
  /\ Len(bookings) = 1
  /\ bookings[1].state = "EXPIRED"
  /\ bookings[1].num_seats = trips[bookings[1].trip_id].max_capacity
  /\ trips[bookings[1].trip_id].available_seats
       = trips[bookings[1].trip_id].max_capacity

\* ---- C2 ----------------------------------------------------------------------
\* Every process has a create request for trip 1 in flight: its client is
\* obtained, its body is valid, BEGIN is sent.
RaceInit ==
  /\ \E d \in TripData :
       trips = [t \in TripIds |-> TripService_create(d[t])]
  /\ bookings = <<>>
  /\ tripLock = [t \in TripIds |-> 0]
  /\ bookingLock = [b \in BookingIds |-> 0]
  /\ now = 0
  /\ op = [p \in Procs |-> "book"]
  /\ pc = [p \in Procs |-> "lock"]
  /\ args \in [Procs -> {r \in BookRequests : r.tripId = 1 /\ r.user_id # ""
                                                /\ r.num_seats >= 1}]
  /\ loc = [p \in Procs |-> NoRow]
  /\ tx = [p \in Procs |-> NoTx]
  /\ stale = [p \in Procs |-> {}]
  /\ resp = [p \in Procs |-> NoResp]
  /\ out = NoOut

\* The creates run to their end; no further request arrives.
RaceNext ==
  \/ Tick
  \/ \E p \in Procs :
       \/ BookLock(p) \/ Commit(p) \/ Rollback(p)
       \/ Fail(p) \/ CommitFail(p) \/ Catch(p) \/ CatchFail(p)

SpecRace == RaceInit /\ [][RaceNext]_vars

\* Seats of trip t held by the PENDING_PAYMENT and CONFIRMED rows among the
\* first n bookings.
RECURSIVE SeatsHeldUpTo(_, _)
SeatsHeldUpTo(t, n) ==
  IF n = 0 THEN 0
  ELSE SeatsHeldUpTo(t, n - 1)
       + (IF /\ bookings[n].trip_id = t
             /\ bookings[n].state \in {"PENDING_PAYMENT", "CONFIRMED"}
            THEN bookings[n].num_seats ELSE 0)

SeatsHeld(t) == SeatsHeldUpTo(t, Len(bookings))

\* C2: concurrent creates on one trip never over-commit its seats.  The seats
\* held by bookings never exceed max_capacity and available_seats is what is
\* left of it; no two creates are past the availability check of the same
\* trip at once; a create refused with INSUFFICIENT_SEATS was short of seats
\* in the committed count.  With available_seats = 1 and creates for 1 seat
\* each, the create that is refused finds the other's booking committed and
\* available_seats at 0, and when all have returned the trip has at most the
\* one booking.
C2_NoOverCommit ==
  /\ \A t \in TripIds :
       /\ SeatsHeld(t) <= trips[t].max_capacity
       /\ trips[t].available_seats = trips[t].max_capacity - SeatsHeld(t)
  /\ \A p, q \in Procs :
       (p # q /\ tx[p].trip # 0) => tx[q].trip # tx[p].trip
  /\ \A p \in Procs :
       (pc[p] = "rollback" /\ resp[p].body = "INSUFFICIENT_SEATS")
         => /\ trips[args[p].tripId].available_seats < args[p].num_seats
            /\ (trips[args[p].tripId].max_capacity = 1 /\ args[p].num_seats = 1)
                 => /\ Len(bookings) = 1
                    /\ bookings[1].num_seats = 1
                    /\ bookings[1].state = "PENDING_PAYMENT"
                    /\ trips[args[p].tripId].available_seats = 0
  /\ ((\A p \in Procs : pc[p] = "idle") /\ trips[1].max_capacity = 1)
       => Len(bookings) <= 1

\* Trip 1 had one seat, two creates asked for one seat each: one booking is
\* committed, available_seats is 0, and the other create is being refused.
C2_Witness ==
  \E p \in Procs :
    /\ pc[p] = "rollback" /\ resp[p].body = "INSUFFICIENT_SEATS"
    /\ args[p].tripId = 1 /\ args[p].num_seats = 1
    /\ trips[1].max_capacity = 1 /\ trips[1].available_seats = 0
    /\ Len(bookings) = 1 /\ bookings[1].num_seats = 1

\* ---- C3 ----------------------------------------------------------------------
AllowedTransitions ==
  { <<"PENDING_PAYMENT", "CONFIRMED">>, <<"PENDING_PAYMENT", "EXPIRED">>,
    <<"PENDING_PAYMENT", "CANCELLED">>, <<"CONFIRMED", "CANCELLED">> }

\* C3: in every step, a booking row keeps its state or moves along
\* PENDING_PAYMENT->CONFIRMED, PENDING_PAYMENT->EXPIRED,
\* PENDING_PAYMENT->CANCELLED or CONFIRMED->CANCELLED (so an EXPIRED or
\* CANCELLED row never changes state again); rows are never deleted and a new
\* row starts in PENDING_PAYMENT.
C3_StateMachine ==
  [][ /\ Len(bookings') >= Len(bookings)
      /\ \A i \in 1..Len(bookings) :
           \/ bookings'[i].state = bookings[i].state
           \/ <<bookings[i].state, bookings'[i].state>> \in AllowedTransitions
      /\ \A i \in (Len(bookings) + 1)..Len(bookings') :
           bookings'[i].state = "PENDING_PAYMENT" ]_vars

\* A booking went PENDING_PAYMENT -> CONFIRMED -> CANCELLED, and a webhook,
\* cancel or expiry-job transaction that then locked it leaves it alone.
C3_Witness ==
  \E p \in Procs :
    /\ pc[p] = "rollback" /\ op[p] \in {"webhook", "cancel", "sweep"}
    /\ loc[p].id = 1
    /\ bookings[1].state = "CANCELLED"
    /\ bookings[1].payment_reference # ""

\* ---- C4 ----------------------------------------------------------------------
\* C4: a create that passes the checks prepares, at time now, a row with
\* expires_at = now + TTL on a PUBLISHED trip with available_seats >= numSeats;
\* when it is answered 201 it has inserted exactly that one row, in state
\* PENDING_PAYMENT, with price_at_booking = trip.price x numSeats and an
\* idempotency_key no other row has, left all other rows as they were, and
\* decreased the trip's available_seats by exactly numSeats.
C4_CreateEffect ==
  [][ \A p \in Procs :
        /\ (op[p] = "book" /\ pc[p] = "lock" /\ pc'[p] = "commit")
             => /\ trips[args[p].tripId].status = "PUBLISHED"
                /\ trips[args[p].tripId].available_seats >= args[p].num_seats
                /\ tx'[p].bk.kind = "insert"
                /\ tx'[p].bk.rec.expires_at = now + expiryMinutes
        /\ (op[p] = "book" /\ pc[p] = "commit" /\ pc'[p] = "idle"
               /\ out'.resp.code = 201)
             => LET t == args[p].tripId
                    n == args[p].num_seats
                    b == bookings'[Len(bookings')]
                IN /\ Len(bookings') = Len(bookings) + 1
                   /\ SubSeq(bookings', 1, Len(bookings)) = bookings
                   /\ b = tx[p].bk.rec
                   /\ b.state = "PENDING_PAYMENT"
                   /\ b.trip_id = t /\ b.user_id = args[p].user_id
                   /\ b.num_seats = n
                   /\ b.price_at_booking = trips[t].price * n
                   /\ \A i \in 1..Len(bookings) :
                        bookings[i].idempotency_key # b.idempotency_key
                   /\ trips' = [trips EXCEPT ![t].available_seats = @ - n] ]_vars

\* A create for both seats of trip 1 was answered 201: the row is there and
\* the trip has no seat left.
C4_Witness ==
  /\ out.op = "book" /\ out.resp.code = 201
  /\ Len(bookings) = 1
  /\ bookings[1].state = "PENDING_PAYMENT"
  /\ bookings[1].num_seats = 2
  /\ bookings[1].price_at_booking = 2 * trips[1].price
  /\ trips[1].max_capacity = 2 /\ trips[1].available_seats = 0

\* ---- C5 ----------------------------------------------------------------------
CreateErrors == {"NOT_FOUND", "NOT_PUBLISHED", "INSUFFICIENT_SEATS"}

\* C5: when a create has locked and checked the trip, its answer is NOT_FOUND
\* if no such trip exists, NOT_PUBLISHED if the trip's status is not PUBLISHED,
\* INSUFFICIENT_SEATS if available_seats < numSeats; a create with one of
\* these answers writes nothing: none of its steps changes a trip or a
\* booking, and the answer it returns is the one it decided on.
C5_CreateErrors ==
  [][ \A p \in Procs :
        /\ (op[p] = "book" /\ pc[p] = "lock" /\ pc'[p] \notin {"lock", "catch"})
             => LET t == args[p].tripId
                    n == args[p].num_seats
                IN /\ t \notin DOMAIN trips
                        => resp'[p] = Response(404, "NOT_FOUND")
                   /\ (t \in DOMAIN trips /\ trips[t].status # "PUBLISHED")
                        => resp'[p] = Response(400, "NOT_PUBLISHED")
                   /\ (t \in DOMAIN trips /\ trips[t].status = "PUBLISHED"
                          /\ trips[t].available_seats < n)
                        => resp'[p] = Response(409, "INSUFFICIENT_SEATS")
                   /\ resp'[p].body \in CreateErrors
                        => /\ pc'[p] = "rollback"
                           /\ tx'[p] = NoTx
                           /\ trips' = trips /\ bookings' = bookings
        /\ (op[p] = "book" /\ resp[p].body \in CreateErrors /\ pc'[p] # pc[p])
             => /\ trips' = trips /\ bookings' = bookings
                /\ (pc[p] = "rollback" /\ pc'[p] = "idle") => out'.resp = resp[p] ]_vars

\* A create on the DRAFT trip 2 was answered NOT_PUBLISHED and the trip still
\* has all its seats.
C5_Witness ==
  /\ out.op = "book" /\ out.resp = Response(400, "NOT_PUBLISHED")
  /\ trips[2].status = "DRAFT"
  /\ trips[2].available_seats = trips[2].max_capacity
  /\ bookings = <<>>

\* ---- the webhook handler at work ---------------------------------------------
\* The webhook handler of p has locked a booking row and taken a branch.
Branched(p) == op[p] = "webhook" /\ loc[p] # NoRow

\* The webhook handler of p locks and examines booking row i in this step.
WebhookExamines(p, i) ==
  /\ op[p] = "webhook" /\ pc[p] = "lock" /\ pc'[p] \notin {"lock", "catch"}
  /\ args[p].booking_id = i

\* ---- C6 ----------------------------------------------------------------------
\* The payment provider delivers one event for booking 1 several times.  The
\* booking was created at time 0 and is PENDING_PAYMENT; process 1 has the
\* first delivery in flight, every other process holds a later delivery of
\* the same event, which arrives once process 1 is through with the first.
\* Process 1 then goes on with cancel requests, further events and runs of
\* the expiry job.
RedeliveryInit ==
  /\ \E d \in TripData : \E n \in 1..d[1].max_capacity :
       /\ trips = [t \in TripIds |->
                     IF t = 1
                       THEN [TripService_create(d[t]) EXCEPT
                               !.available_seats = d[t].max_capacity - n]
                       ELSE TripService_create(d[t])]
       /\ bookings = << BookingService_create(
                          [trip_id |-> 1, user_id |-> "u1", num_seats |-> n,
                           price_at_booking |-> d[1].price * n,
                           idempotency_key |-> <<"uuid", 1>>,
                           expires_at |-> expiryMinutes]) >>
  /\ tripLock = [t \in TripIds |-> 0]
  /\ bookingLock = [b \in BookingIds |-> 0]
  /\ now = 0
  /\ op = [p \in Procs |-> "webhook"]
  /\ pc = [p \in Procs |-> IF p = 1 THEN "lock" ELSE "queued"]
  /\ \E e \in {e \in Events : e.booking_id = 1} : args = [p \in Procs |-> e]
  /\ loc = [p \in Procs |-> NoRow]
  /\ tx = [p \in Procs |-> NoTx]
  /\ stale = [p \in Procs |-> {}]
  /\ resp = [p \in Procs |-> NoResp]
  /\ out = NoOut

\* A later delivery arrives: a client is obtained and BEGIN is sent.
Redeliver(p) ==
  /\ pc[p] = "queued" /\ pc[1] = "idle"
  /\ pc' = Upd(pc, p, "lock")
  /\ out' = NoOut
  /\ UNCHANGED <<db, locks, now, op, args, loc, tx, stale, resp>>

\* A later delivery arrives and getClient() rejects.
RedeliverFail(p) ==
  /\ pc[p] = "queued" /\ pc[1] = "idle"
  /\ End(p, "webhook", Thrown)
  /\ UNCHANGED <<db, locks, now, tx>>

RedeliveryNext ==
  \/ Tick
  \/ StartCancel(1) \/ StartWebhook(1) \/ StartSweep(1)
  \/ SweepFindFail(1) \/ GetClientFail(1)
  \/ \E p \in Procs \ {1} : Redeliver(p) \/ RedeliverFail(p)
  \/ \E p \in Procs :
       \/ CancelLock(p) \/ WebhookLock(p) \/ SweepLock(p) \/ Increment(p)
       \/ Rollback(p) \/ Commit(p) \/ Fail(p) \/ CommitFail(p)
       \/ Catch(p) \/ CatchFail(p)

SpecRedelivery == RedeliveryInit /\ [][RedeliveryNext]_vars

C7_LateWebhookExpires ==
  [][ \A p \in Procs :
        /\ \A i \in 1..Len(bookings) :
             (WebhookExamines(p, i) /\ bookings[i].state = "PENDING_PAYMENT"
                /\ bookings[i].expires_at < now)
               => /\ loc'[p].branch = "late"
                  /\ tx'[p].bk = [kind |-> "update", id |-> i,
                                   rec |-> [bookings[i] EXCEPT !.state = "EXPIRED"]]
                  /\ pc'[p] = "increment"
        /\ (Branched(p) /\ loc[p].branch = "late"
               /\ pc[p] = "commit" /\ pc'[p] = "idle")
             => /\ bookings'[loc[p].id].state = "EXPIRED"
                /\ trips'[loc[p].trip_id].available_seats
                     = trips[loc[p].trip_id].available_seats + loc[p].num_seats
                /\ out'.resp = Response(200, "expired") ]_vars

\* A success event for a booking past its deadline: the handler has written
\* EXPIRED and the release of the booking's seats, and is about to commit.
C7_Witness ==
  \E p \in Procs :
    /\ Branched(p) /\ pc[p] = "commit"
    /\ args[p].status = "success"
    /\ loc[p].expires_at < loc[p].checked_at
    /\ tx[p].bk.kind = "update" /\ tx[p].bk.rec.state = "EXPIRED"
    /\ tx[p].trip = loc[p].trip_id /\ tx[p].delta = loc[p].num_seats

\* ---- C8 ----------------------------------------------------------------------
\* C8 as claimed: a confirm is applied only if now < expires_at at that
\* moment; at now >= expires_at, the instant now = expires_at included, the
\* expire transition is applied instead.
C8_ConfirmOnlyBeforeDeadline ==
  \A p \in Procs :
    (Branched(p) /\ loc[p].branch \in {"success", "late"})
      => /\ loc[p].branch = "success" => loc[p].checked_at < loc[p].expires_at
         /\ loc[p].branch = "late" <=> loc[p].checked_at >= loc[p].expires_at

\* C8 as amended: the handler compares the clock with expires_at under the
\* row lock; it confirms a PENDING_PAYMENT booking only if the event is a
\* success and now <= expires_at, the instant now = expires_at included, and
\* applies the expire transition instead exactly when now > expires_at.
C8_ConfirmUntilDeadline ==
  [][ \A p \in Procs : \A i \in 1..Len(bookings) :
        (WebhookExamines(p, i) /\ bookings[i].state = "PENDING_PAYMENT")
          => /\ (args[p].status = "success" /\ now <= bookings[i].expires_at)
                  => /\ loc'[p].branch = "success"
                     /\ tx'[p].bk.kind = "update"
                     /\ tx'[p].bk.rec.state = "CONFIRMED"
             /\ now > bookings[i].expires_at
                  => /\ loc'[p].branch = "late"
                     /\ tx'[p].bk.kind = "update"
                     /\ tx'[p].bk.rec.state = "EXPIRED"
             /\ (tx'[p].bk.kind = "update" /\ tx'[p].bk.rec.state = "CONFIRMED")
                  => args[p].status = "success" /\ now <= bookings[i].expires_at ]_vars

\* A success event examined at the instant now = expires_at: the handler has
\* written CONFIRMED.
C8_Witness ==
  \E p \in Procs :
    /\ Branched(p) /\ loc[p].branch = "success"
    /\ loc[p].checked_at = loc[p].expires_at
    /\ tx[p].bk.kind = "update" /\ tx[p].bk.rec.state = "CONFIRMED"

\* ---- C9 ----------------------------------------------------------------------
\* C9: every delivery to the webhook ends with the answer 200, also when
\* obtaining the client, a query, the COMMIT or the ROLLBACK of the catch
\* block fails.
C9_AlwaysAcknowledged ==
  out.op = "webhook" => (out.resp.code = 200 /\ out.resp.body # "thrown")

\* ---- C10 ---------------------------------------------------------------------
\* C10 as claimed: the confirm stores the event's payment_reference.
C10_StoresEventReference ==
  \A p \in Procs :
    (Branched(p) /\ loc[p].branch = "success" /\ tx[p].bk.kind = "update")
      => tx[p].bk.rec.payment_reference = args[p].payment_reference

\* C10 as amended: a success event for a PENDING_PAYMENT booking that has
\* not expired, once committed and answered, has changed that row to
\* CONFIRMED with payment_reference set to the event's payment_reference, or
\* to the event's idempotency_key when the event carries no
\* payment_reference, and nothing else: no other field, no other row, no
\* trip's available_seats.
C10_ConfirmEffect ==
  [][ \A p \in Procs :
        /\ \A i \in 1..Len(bookings) :
             (WebhookExamines(p, i) /\ bookings[i].state = "PENDING_PAYMENT"
                /\ ~(bookings[i].expires_at < now) /\ args[p].status = "success")
               => /\ pc'[p] = "commit"
                  /\ tx'[p].trip = 0
                  /\ resp'[p] = Response(200, "CONFIRMED")
        /\ (Branched(p) /\ loc[p].branch = "success"
               /\ pc[p] = "commit" /\ pc'[p] = "idle")
             => /\ bookings' =
                     [bookings EXCEPT
                        ![loc[p].id].state = "CONFIRMED",
                        ![loc[p].id].payment_reference =
                           IF args[p].payment_reference # ""
                             THEN args[p].payment_reference
                             ELSE args[p].idempotency_key]
                /\ trips' = trips
                /\ out'.resp = Response(200, "CONFIRMED") ]_vars

\* A success event with a payment reference was answered: the booking is
\* CONFIRMED with that reference and its seats are still taken.
C10_Witness ==
  /\ out.op = "webhook" /\ out.resp = Response(200, "CONFIRMED")
  /\ Len(bookings) = 1
  /\ bookings[1].state = "CONFIRMED"
  /\ bookings[1].payment_reference = "ref1"
  /\ trips[bookings[1].trip_id].available_seats
       = trips[bookings[1].trip_id].max_capacity - bookings[1].num_seats


\* ---- C11 ---------------------------------------------------------------------
\* C11: when the webhook handler examines a PENDING_PAYMENT booking that has
\* not expired and the event's status is failed, it writes state EXPIRED and
\* goes on to release the seats; when it has committed and answers, the row
\* is EXPIRED, nothing else of it changed, and the trip's available_seats is
\* larger by exactly the booking's num_seats; no step of that delivery
\* changes the booking without the seat count or the seat count without the
\* booking.
C11_FailedWebhookExpires ==
  [][ \A p \in Procs :
        /\ \A i \in 1..Len(bookings) :
             (WebhookExamines(p, i) /\ bookings[i].state = "PENDING_PAYMENT"
                /\ ~(bookings[i].expires_at < now) /\ args[p].status = "failed")
               => /\ loc'[p].branch = "failed"
                  /\ tx'[p].bk = [kind |-> "update", id |-> i,
                                   rec |-> [bookings[i] EXCEPT !.state = "EXPIRED"]]
                  /\ pc'[p] = "increment"
                  /\ resp'[p] = Response(200, "EXPIRED")
        /\ (Branched(p) /\ loc[p].branch = "failed"
               /\ pc[p] = "commit" /\ pc'[p] = "idle")
             => /\ bookings' = [bookings EXCEPT ![loc[p].id].state = "EXPIRED"]
                /\ trips' = [trips EXCEPT
                               ![loc[p].trip_id].available_seats =
                                  @ + loc[p].num_seats]
                /\ out'.resp = Response(200, "EXPIRED")
        /\ (Branched(p) /\ loc[p].branch = "failed" /\ pc[p] # pc'[p])
             => (bookings' # bookings <=> trips' # trips) ]_vars

\* A failed event for a two-seat booking inside its payment window was
\* answered: the booking is EXPIRED and both seats are back.
C11_Witness ==
  /\ out.op = "webhook" /\ out.resp = Response(200, "EXPIRED")
  /\ Len(bookings) = 1
  /\ bookings[1].state = "EXPIRED" /\ bookings[1].num_seats = 2
  /\ trips[bookings[1].trip_id].available_seats
       = trips[bookings[1].trip_id].max_capacity


\* ---- C12 ---------------------------------------------------------------------
\* C12: a delivery performs no transition and changes no booking and no
\* trip (a) when the event lacks a required field: it is acknowledged at
\* once; (b) when no booking has the event's booking_id, and (c) when the
\* booking is PENDING_PAYMENT, has not expired and the status is neither
\* success nor failed: the handler writes nothing under the lock, rolls back
\* and acknowledges.
C12_NoTransition ==
  [][ /\ (out'.op = "webhook" /\ op' = op /\ out'.resp # Thrown)
          => /\ db' = db
             /\ out'.resp = Response(200, "received")
      /\ \A p \in Procs :
           /\ ( /\ op[p] = "webhook" /\ pc[p] = "lock"
                /\ pc'[p] \notin {"lock", "catch"}
                /\ \/ args[p].booking_id \notin 1..Len(bookings)
                   \/ /\ args[p].booking_id \in 1..Len(bookings)
                      /\ bookings[args[p].booking_id].state = "PENDING_PAYMENT"
                      /\ ~(bookings[args[p].booking_id].expires_at < now)
                      /\ args[p].status \notin {"success", "failed"} )
                => /\ pc'[p] = "rollback"
                   /\ tx'[p] = NoTx
                   /\ resp'[p] = Response(200, "received")
                   /\ db' = db
                   /\ loc'[p] = NoRow \/ loc'[p].branch = "unknown"
           /\ ( /\ op[p] = "webhook" /\ pc[p] # pc'[p]
                /\ loc[p] = NoRow \/ loc[p].branch = "unknown" )
                => /\ db' = db
                   /\ (op'[p] = "idle" /\ out'.resp # Thrown)
                        => out'.resp.code = 200 ]_vars

\* An event with an unknown status for a PENDING_PAYMENT booking inside its
\* payment window: the handler wrote nothing and is about to roll back.
C12_Witness ==
  \E p \in Procs :
    /\ Branched(p) /\ loc[p].branch = "unknown" /\ pc[p] = "rollback"
    /\ args[p].status = "other"
    /\ bookings[loc[p].id].state = "PENDING_PAYMENT"
    /\ ~(bookings[loc[p].id].expires_at < loc[p].checked_at)
    /\ tx[p] = NoTx


\* ---- C13 ---------------------------------------------------------------------
\* The cancel handler of p examines booking i under the row lock.
CancelExamines(p, i) ==
  /\ op[p] = "cancel" /\ pc[p] = "lock" /\ pc'[p] \notin {"lock", "catch"}
  /\ args[p].bookingId = i

\* C13: a cancel of a PENDING_PAYMENT or CONFIRMED booking at a moment when
\* floor((start_date - now) / 1 day) > refundable_until_days_before writes
\* state CANCELLED, cancelled_at, and refund_amount = price_at_booking x
\* (1 - fee_percent/100) rounded to 2 decimals (a half cent rounds up), and
\* goes on to release the seats; when it has committed and answers, the row
\* carries these values and the trip's available_seats is larger by num_seats.
C13_RefundBeforeCutoff ==
  [][ \A p \in Procs :
        /\ \A i \in 1..Len(bookings) :
             LET b == bookings[i]
                 t == trips[b.trip_id] IN
             ( /\ CancelExamines(p, i)
               /\ b.state \in {"PENDING_PAYMENT", "CONFIRMED"}
               /\ (t.start_date - now) \div msPerDay
                    > t.refundable_until_days_before )
               => /\ tx'[p].bk =
                       [kind |-> "update", id |-> i,
                        rec |-> [b EXCEPT
                                   !.state = "CANCELLED",
                                   !.cancelled_at = tx[p].start,
                                   !.refund_amount =
                                      (b.price_at_booking
                                         * (100 - t.cancellation_fee_percent)
                                       + 50) \div 100]]
                  /\ tx[p].start # NULL
                  /\ pc'[p] = "increment"
        /\ ( /\ op[p] = "cancel" /\ pc[p] = "commit" /\ pc'[p] = "idle"
             /\ loc[p].isBeforeCutoff )
             => /\ bookings' = [bookings EXCEPT ![loc[p].id] = tx[p].bk.rec]
                /\ trips' = [trips EXCEPT
                               ![loc[p].trip_id].available_seats =
                                  @ + loc[p].num_seats]
                /\ out'.resp = Response(200, "CANCELLED") ]_vars


\* ---- C14 ---------------------------------------------------------------------
\* C14: a cancel of a PENDING_PAYMENT or CONFIRMED booking at a moment when
\* floor((start_date - now) / 1 day) <= refundable_until_days_before, the
\* day of the cutoff included, writes state CANCELLED with refund_amount 0
\* and sends no seat release; when it has committed and answers, the row is
\* CANCELLED with refund_amount 0 and no trip row has changed.
C14_NoRefundFromCutoff ==
  [][ \A p \in Procs :
        /\ \A i \in 1..Len(bookings) :
             LET b == bookings[i]
                 t == trips[b.trip_id] IN
             ( /\ CancelExamines(p, i)
               /\ b.state \in {"PENDING_PAYMENT", "CONFIRMED"}
               /\ (t.start_date - now) \div msPerDay
                    <= t.refundable_until_days_before )
               => /\ tx'[p].bk =
                       [kind |-> "update", id |-> i,
                        rec |-> [b EXCEPT !.state = "CANCELLED",
                                          !.cancelled_at = tx[p].start,
                                          !.refund_amount = 0]]
                  /\ tx'[p].trip = 0
                  /\ loc'[p].isBeforeCutoff = FALSE
                  /\ pc'[p] = "commit"
        /\ ( /\ op[p] = "cancel" /\ pc[p] = "commit" /\ pc'[p] = "idle"
             /\ ~loc[p].isBeforeCutoff )
             => /\ bookings' = [bookings EXCEPT
                                  ![loc[p].id].state = "CANCELLED",
                                  ![loc[p].id].cancelled_at = tx[p].start,
                                  ![loc[p].id].refund_amount = 0]
                /\ trips' = trips
                /\ out'.resp = Response(200, "CANCELLED") ]_vars

\* A cancel on the day of the cutoff itself (daysUntilTrip equal to
\* refundable_until_days_before): refund 0 is written, no seat release is
\* part of the transaction, and the handler is about to commit.
C14_Witness ==
  \E p \in Procs :
    /\ op[p] = "cancel" /\ pc[p] = "commit"
    /\ loc[p].daysUntilTrip = loc[p].refundable_until_days_before
    /\ tx[p].bk.kind = "update" /\ tx[p].bk.rec.state = "CANCELLED"
    /\ tx[p].bk.rec.refund_amount = 0
    /\ tx[p].trip = 0
    /\ trips[loc[p].trip_id].available_seats
         = trips[loc[p].trip_id].max_capacity - loc[p].num_seats


\* ---- C15 ---------------------------------------------------------------------
\* C15: a cancel for a booking id no row has is answered NOT_FOUND (404), a
\* cancel of an EXPIRED or CANCELLED booking ALREADY_TERMINAL (409); in both
\* cases the handler writes nothing under the lock, rolls back, and no step
\* of the request changes a booking or a trip.
C15_CancelErrors ==
  [][ \A p \in Procs :
        /\ ( /\ op[p] = "cancel" /\ pc[p] = "lock"
             /\ pc'[p] \notin {"lock", "catch"}
             /\ args[p].bookingId \notin 1..Len(bookings) )
             => /\ resp'[p] = Response(404, "NOT_FOUND")
                /\ pc'[p] = "rollback"
                /\ tx'[p] = tx[p] /\ tx[p].bk = NoWrite /\ tx[p].trip = 0
        /\ \A i \in 1..Len(bookings) :
             (CancelExamines(p, i) /\ bookings[i].state \in {"EXPIRED", "CANCELLED"})
               => /\ resp'[p] = Response(409, "ALREADY_TERMINAL")
                  /\ pc'[p] = "rollback"
                  /\ tx'[p] = tx[p] /\ tx[p].bk = NoWrite /\ tx[p].trip = 0
        /\ ( /\ op[p] = "cancel" /\ pc[p] # pc'[p]
             /\ resp[p] \in {Response(404, "NOT_FOUND"),
                             Response(409, "ALREADY_TERMINAL")} )
             => /\ db' = db
                /\ (pc[p] = "rollback" /\ pc'[p] = "idle")
                     => out' = [op |-> "cancel", resp |-> resp[p]] ]_vars

\* A second cancel of a booking that was cancelled before the cutoff was
\* answered ALREADY_TERMINAL: the row still carries the first cancel's
\* refund and the seats released then.
C15_Witness ==
  /\ out = [op |-> "cancel", resp |-> Response(409, "ALREADY_TERMINAL")]
  /\ Len(bookings) = 1
  /\ bookings[1].state = "CANCELLED" /\ bookings[1].refund_amount > 0
  /\ bookings[1].cancelled_at = 0
  /\ trips[bookings[1].trip_id].available_seats
       = trips[bookings[1].trip_id].max_capacity


\* ---- C16 ---------------------------------------------------------------------
\* C16: when runs of the expiry job, webhook deliveries and cancels work on
\* the same PENDING_PAYMENT booking at once, at most one of them has a write
\* of the row pending at any time, and the row leaves PENDING_PAYMENT once
\* and for all; a job run or a delivery that finds the state changed under
\* the lock writes nothing and rolls back; every step that raises a trip's
\* available_seats is the commit that moves one booking of that trip to
\* EXPIRED or CANCELLED and raises it by that booking's num_seats, so the
\* seats of a booking are released at most once.
C16_OneTransitionPerBooking ==
  [][ /\ \A p, q \in Procs :
           (p # q /\ tx[p].bk.kind = "update" /\ tx[q].bk.kind = "update")
             => tx[p].bk.id # tx[q].bk.id
      /\ \A i \in 1..Len(bookings) :
           /\ bookings[i].state # "PENDING_PAYMENT"
                => bookings'[i].state # "PENDING_PAYMENT"
           /\ bookings[i].state \in {"EXPIRED", "CANCELLED"}
                => bookings'[i] = bookings[i]
      /\ \A t \in TripIds :
           trips'[t].available_seats > trips[t].available_seats
             => \E i \in 1..Len(bookings) :
                  /\ bookings[i].trip_id = t
                  /\ bookings[i].state \in {"PENDING_PAYMENT", "CONFIRMED"}
                  /\ bookings'[i].state \in {"EXPIRED", "CANCELLED"}
                  /\ trips'[t].available_seats
                       = trips[t].available_seats + bookings[i].num_seats
      /\ \A p \in Procs : \A i \in 1..Len(bookings) :
           ( /\ pc[p] = "lock" /\ pc'[p] \notin {"lock", "catch", "idle"}
             /\ \/ op[p] = "sweep" /\ args[p].id = i
                \/ op[p] = "webhook" /\ args[p].booking_id = i
             /\ bookings[i].state # "PENDING_PAYMENT" )
             => /\ pc'[p] = "rollback"
                /\ tx'[p] = NoTx
                /\ db' = db ]_vars

\* A run of the expiry job listed a booking as stale; by the time it holds
\* the row lock another actor has expired or cancelled the booking, and the
\* run skips it.
C16_Witness ==
  \E p \in Procs :
    /\ op[p] = "sweep" /\ pc[p] = "rollback"
    /\ loc[p] # NoRow /\ loc[p].state \in {"EXPIRED", "CANCELLED"}
    /\ bookings[loc[p].id].state = loc[p].state
    /\ tx[p] = NoTx


\* ---- C17 ---------------------------------------------------------------------
\* C17: every step that changes committed rows is a step of one handler and
\* shows the whole of that handler's unit of work: a create shows the new
\* PENDING_PAYMENT row together with the trip's available_seats lower by its
\* num_seats; an expire (webhook or expiry job) shows the row EXPIRED
\* together with available_seats higher by num_seats; a cancel shows the row
\* CANCELLED together with available_seats higher by num_seats if it was
\* before the cutoff and unchanged otherwise; a confirm shows the row
\* CONFIRMED and no seat change.  A unit that failed after some of its
\* writes shows none of them.
C17_AllOrNothing ==
  [][ /\ (\A p \in Procs : pc'[p] = pc[p] /\ op'[p] = op[p]) => db' = db
      /\ \A p \in Procs :
           (pc'[p] # pc[p] \/ op'[p] # op[p])
             => \/ db' = db
                \/ /\ op[p] = "book"
                   /\ Len(bookings') = Len(bookings) + 1
                   /\ SubSeq(bookings', 1, Len(bookings)) = bookings
                   /\ LET b == bookings'[Len(bookings')] IN
                      /\ b.state = "PENDING_PAYMENT"
                      /\ trips' = [trips EXCEPT
                                     ![b.trip_id].available_seats = @ - b.num_seats]
                \/ /\ op[p] \in {"webhook", "sweep", "cancel"}
                   /\ \E i \in 1..Len(bookings) :
                        LET b == bookings'[i]
                            released == [trips EXCEPT
                                           ![b.trip_id].available_seats =
                                              @ + b.num_seats]
                        IN /\ bookings' = [bookings EXCEPT ![i] = b]
                           /\ b.state # bookings[i].state
                           /\ b.num_seats = bookings[i].num_seats
                           /\ b.trip_id = bookings[i].trip_id
                           /\ CASE b.state = "CONFIRMED" ->
                                     op[p] = "webhook" /\ trips' = trips
                                [] b.state = "EXPIRED" ->
                                     op[p] # "cancel" /\ trips' = released
                                [] b.state = "CANCELLED" ->
                                     /\ op[p] = "cancel"
                                     /\ trips' = IF loc[p].isBeforeCutoff
                                                   THEN released ELSE trips
                                [] OTHER -> FALSE ]_vars

\* The booking's state was updated inside the unit and the seat release
\* then failed: the handler is in its catch block, and the committed rows
\* show neither the state change nor a seat change.
C17_Witness ==
  \E p \in Procs :
    /\ pc[p] = "catch"
    /\ tx[p].bk.kind = "update" /\ tx[p].bk.rec.state = "EXPIRED"
    /\ tx[p].trip = 0
    /\ bookings[tx[p].bk.id].state = "PENDING_PAYMENT"
    /\ trips[bookings[tx[p].bk.id].trip_id].available_seats
         = trips[bookings[tx[p].bk.id].trip_id].max_capacity
             - bookings[tx[p].bk.id].num_seats


\* ---- the expiry job on several bookings --------------------------------------
\* The bookings table holds SweepRows one-seat bookings of trip 1, created
\* at different times; some were confirmed in time.  Runs of the expiry job
\* start at some moment; the clock does not move while they run, so no
\* further booking reaches its expires_at.
SweepRows == MaxBookings + 1

SweepInit ==
  /\ \E d \in {d \in TripData : d[1].max_capacity = MaxCap} :
       trips = [t \in TripIds |->
                  IF t = 1
                    THEN [TripService_create(d[t]) EXCEPT
                            !.available_seats = d[t].max_capacity - SweepRows]
                    ELSE TripService_create(d[t])]
  /\ \E created \in [1..SweepRows -> 0..1] :
     \E paid \in SUBSET (1..SweepRows) :
       /\ bookings =
            [i \in 1..SweepRows |->
               LET b == BookingService_create(
                          [trip_id |-> 1, user_id |-> "u1", num_seats |-> 1,
                           price_at_booking |-> trips[1].price,
                           idempotency_key |-> <<"uuid", i>>,
                           expires_at |-> created[i] + expiryMinutes])
               IN IF i \in paid
                    THEN [b EXCEPT !.state = "CONFIRMED",
                                   !.payment_reference = "k1"]
                    ELSE b]
       /\ now \in {t \in 0..MaxTime : \A i \in 1..SweepRows : created[i] <= t}
  /\ \A t \in TripIds : trips_check(trips[t])
  /\ tripLock = [t \in TripIds |-> 0]
  /\ bookingLock = [b \in BookingIds |-> 0]
  /\ op = [p \in Procs |-> "idle"]
  /\ pc = [p \in Procs |-> "idle"]
  /\ args = [p \in Procs |-> NoArgs]
  /\ loc = [p \in Procs |-> NoRow]
  /\ tx = [p \in Procs |-> NoTx]
  /\ stale = [p \in Procs |-> {}]
  /\ resp = [p \in Procs |-> NoResp]
  /\ out = NoOut

\* Runs of the expiry job, overlapping ones included, and the failures of
\* the store.
SweepSpecNext ==
  \E p \in Procs :
    \/ StartSweep(p) \/ SweepFindFail(p) \/ GetClientFail(p)
    \/ SweepLock(p) \/ Increment(p)
    \/ Rollback(p) \/ Commit(p) \/ Fail(p) \/ CommitFail(p)
    \/ Catch(p) \/ CatchFail(p)

SpecSweep == SweepInit /\ [][SweepSpecNext]_vars

\* ---- C18 ---------------------------------------------------------------------
\* C18: a run of the expiry job ends only after it has taken up every
\* booking it listed, whatever failed while it processed one of them.
C18_FailureDoesNotAbort ==
  [][ \A p \in Procs :
        (op[p] = "sweep" /\ op'[p] = "idle") => stale[p] = {} ]_vars


\* ---- C19 ---------------------------------------------------------------------
\* C19: a run of the expiry job lists exactly the bookings that are
\* PENDING_PAYMENT with expires_at < now, and returns at once, changing
\* nothing, when there are none; for every listed booking that is still
\* PENDING_PAYMENT when the run holds its lock, the run writes EXPIRED and
\* its commit shows the row EXPIRED and the trip's available_seats higher by
\* num_seats; a run that returns has taken up every booking it listed.  A
\* run started right after a run that returned without a failure, the clock
\* not having moved, finds nothing, expires 0 bookings and changes no
\* booking and no seat count.
C19_SweepExpiresStale ==
  [][ \A p \in Procs :
        LET Stale == {i \in 1..Len(bookings) :
                        /\ bookings[i].state = "PENDING_PAYMENT"
                        /\ bookings[i].expires_at < now} IN
        /\ (pc[p] = "idle" /\ op'[p] = "sweep")
             => /\ {args'[p]} \cup stale'[p] =
                     {[id |-> i, trip_id |-> bookings[i].trip_id,
                       num_seats |-> bookings[i].num_seats] : i \in Stale}
                /\ db' = db
        /\ (out'.op = "sweep" /\ out'.resp.body = "returned" /\ op' = op)
             => /\ Stale = {}
                /\ out'.resp.expired = 0
                /\ db' = db
        /\ ( /\ op[p] = "sweep" /\ pc[p] = "lock"
             /\ pc'[p] \notin {"lock", "catch", "idle"}
             /\ bookings[args[p].id].state = "PENDING_PAYMENT" )
             => /\ tx'[p].bk = [kind |-> "update", id |-> args[p].id,
                                 rec |-> [bookings[args[p].id] EXCEPT
                                            !.state = "EXPIRED"]]
                /\ pc'[p] = "increment"
        /\ ( /\ op[p] = "sweep" /\ pc[p] = "commit"
             /\ pc'[p] \notin {"commit", "catch"} )
             => /\ bookings' = [bookings EXCEPT ![args[p].id].state = "EXPIRED"]
                /\ bookings[args[p].id].state = "PENDING_PAYMENT"
                /\ trips' = [trips EXCEPT
                               ![args[p].trip_id].available_seats =
                                  @ + args[p].num_seats]
        /\ (op[p] = "sweep" /\ op'[p] = "idle" /\ out'.resp.body = "returned")
             => stale[p] = {}
        /\ ( /\ out.op = "sweep" /\ out.resp.body = "returned" /\ ~out.resp.err
             /\ pc[p] = "idle"
             /\ op'[p] = "sweep" \/ (out'.op = "sweep" /\ op' = op /\ pc' = pc) )
             => /\ op'[p] = "idle"
                /\ out'.resp.body = "returned" => out'.resp.expired = 0
                /\ db' = db ]_vars

\* Every booking that was stale has been expired and its seat released, and
\* a run of the expiry job has just returned having expired none.
C19_Witness ==
  /\ out.op = "sweep" /\ out.resp.body = "returned"
  /\ ~out.resp.err /\ out.resp.expired = 0
  /\ \A p \in Procs : op[p] = "idle"
  /\ \A i \in 1..Len(bookings) : bookings[i].state = "EXPIRED"
  /\ trips[1].available_seats = trips[1].max_capacity


\* ---- C20 ---------------------------------------------------------------------
\* C20 as claimed: a run of the expiry job returns the number of bookings
\* it moved from PENDING_PAYMENT to EXPIRED; for a run without a failure
\* that is the number of bookings it logged as expired, 0 when none were
\* stale.
C20_ReturnsCount ==
  (out.op = "sweep" /\ out.resp.body = "returned" /\ ~out.resp.err)
    => out.resp.value = out.resp.expired

\* What the run of p has logged as expired after the step.
ExpiredLogged(p) ==
  IF op'[p] = "sweep" THEN resp'[p].expired
  ELSE IF out'.resp.body = "returned" THEN out'.resp.expired
  ELSE resp[p].expired

\* C20 as amended: a run of the expiry job returns no value.  The number of
\* bookings it expired is reported in its log only: the run logs a booking
\* as expired in the step in which its COMMIT for that booking goes through,
\* which moves that booking from PENDING_PAYMENT to EXPIRED, and in no other
\* step; a booking it skipped, or whose processing failed, is not logged as
\* expired, and a run that finds no stale booking logs none.
C20_LogsCount ==
  [][ /\ (out'.op = "sweep" /\ out'.resp.body = "returned")
          => /\ out'.resp.value = NULL
             /\ op' = op => out'.resp.expired = 0
      /\ \A p \in Procs :
           /\ (pc[p] = "idle" /\ op'[p] = "sweep") => resp'[p].expired = 0
           /\ (op[p] = "sweep" /\ (pc'[p] # pc[p] \/ op'[p] # op[p]))
                => IF pc[p] = "commit" /\ pc'[p] # "catch"
                     THEN /\ ExpiredLogged(p) = resp[p].expired + 1
                          /\ bookings[args[p].id].state = "PENDING_PAYMENT"
                          /\ bookings'[args[p].id].state = "EXPIRED"
                     ELSE ExpiredLogged(p) = resp[p].expired ]_vars

\* A run that listed two stale bookings has returned: it expired one and
\* logged it, left the other alone, and its value is undefined.
C20_Witness ==
  /\ out.op = "sweep" /\ out.resp.body = "returned"
  /\ out.resp.expired = 1 /\ out.resp.value = NULL
  /\ \E i, j \in 1..Len(bookings) :
       /\ i # j
       /\ bookings[i].state = "EXPIRED" /\ bookings[i].expires_at < now
       /\ bookings[j].expires_at < now


\* ---- the two seat updates on their own ---------------------------------------
\* The inputs of decrementSeats and incrementSeats: a trip row with any
\* seat count its CHECK constraints allow, a trip id and a number of seats.
\* Each call is one UPDATE statement; a caller reserves seats and then gives
\* them back, once or twice.
SeatsInit ==
  /\ \E d \in TripData :
     \E seats \in [TripIds -> 0..MaxCap] :
       trips = [t \in TripIds |->
                  [TripService_create(d[t]) EXCEPT !.available_seats = seats[t]]]
  /\ \A t \in TripIds : trips_check(trips[t])
  /\ bookings = <<>>
  /\ tripLock = [t \in TripIds |-> 0]
  /\ bookingLock = [b \in BookingIds |-> 0]
  /\ now = 0
  /\ op = [p \in Procs |-> "idle"]
  /\ pc = [p \in Procs |-> "idle"]
  /\ args = [p \in Procs |-> NoArgs]
  /\ loc = [p \in Procs |-> NoRow]
  /\ tx = [p \in Procs |-> NoTx]
  /\ stale = [p \in Procs |-> {}]
  /\ resp = [p \in Procs |-> NoResp]
  /\ out = NoOut

\* ok = await TripService.decrementSeats(client, tripId, numSeats)
Reserve(p) ==
  /\ pc[p] \in {"idle", "refused", "done"}
  /\ \E t \in TripIds : \E n \in 1..MaxCap :
       LET r == decrementSeats(t, n) IN
       /\ trips' = [trips EXCEPT ![t].available_seats = r.available_seats]
       /\ args' = Upd(args, p, [tripId |-> t, numSeats |-> n])
       /\ loc' = Upd(loc, p, [id |-> t, before |-> trips[t].available_seats])
       /\ pc' = Upd(pc, p, IF r.rowCount > 0 THEN "reserved" ELSE "refused")
       /\ out' = [op |-> "reserve",
                  resp |-> Response(0, IF r.rowCount > 0 THEN "true" ELSE "false")]
  /\ UNCHANGED <<bookings, locks, now, op, tx, stale, resp>>

\* await TripService.incrementSeats(client, tripId, numSeats), for seats
\* reserved before; a caller may do it a second time.
Release(p) ==
  /\ pc[p] \in {"reserved", "released"}
  /\ LET r == incrementSeats(args[p].tripId, args[p].numSeats) IN
     trips' = [trips EXCEPT ![args[p].tripId].available_seats = r.available_seats]
  /\ pc' = Upd(pc, p, IF pc[p] = "reserved" THEN "released" ELSE "done")
  /\ out' = [op |-> "release", resp |-> Response(0, "released")]
  /\ UNCHANGED <<bookings, locks, now, op, args, loc, tx, stale, resp>>

SeatsNext == \E p \in Procs : Reserve(p) \/ Release(p)

SpecSeats == SeatsInit /\ [][SeatsNext]_vars

\* ---- C21 ---------------------------------------------------------------------
\* C21: when a decrementSeats(t, n) that succeeded is followed at once by
\* incrementSeats(t, n), nothing having touched trip t in between, the
\* trip's available_seats is again what it was before the decrement.
C21_ReserveThenRelease ==
  [][ \A p \in Procs :
        ( /\ pc[p] = "reserved" /\ pc'[p] = "released"
          /\ out = [op |-> "reserve", resp |-> Response(0, "true")]
          /\ trips[args[p].tripId].available_seats
               = loc[p].before - args[p].numSeats )
          => trips'[args[p].tripId].available_seats = loc[p].before ]_vars

\* Two seats were reserved on a trip and given back: the count is back at
\* its value before the reserve.
C21_Witness ==
  \E p \in Procs :
    /\ pc[p] = "released" /\ out.op = "release"
    /\ args[p].numSeats = 2
    /\ trips[args[p].tripId].available_seats = loc[p].before

\* ---- C22 ---------------------------------------------------------------------
\* C22: decrementSeats(t, n) lowers available_seats by n and reports true
\* only if available_seats >= n, and otherwise changes nothing and reports
\* false; incrementSeats(t, n) sets available_seats to
\* min(available_seats + n, max_capacity); whatever is released, also twice,
\* the count never exceeds max_capacity.
C22_ReserveAndRelease ==
  [][ \A p \in Procs :
        LET t == args'[p].tripId
            n == args'[p].numSeats IN
        /\ ( /\ out'.op = "reserve" /\ pc'[p] \in {"reserved", "refused"}
             /\ pc'[p] # pc[p] \/ args'[p] # args[p] )
             => IF trips[t].available_seats >= n
                  THEN /\ out'.resp.body = "true"
                       /\ trips' = [trips EXCEPT ![t].available_seats = @ - n]
                  ELSE /\ out'.resp.body = "false"
                       /\ trips' = trips
        /\ (pc[p] \in {"reserved", "released"} /\ pc'[p] # pc[p])
             => /\ trips' = [trips EXCEPT
                               ![t].available_seats =
                                  IF @ + n <= trips[t].max_capacity
                                    THEN @ + n ELSE trips[t].max_capacity]
                /\ trips'[t].available_seats <= trips'[t].max_capacity ]_vars

\* Seats were released a second time and the count stands at max_capacity,
\* although the two releases together exceed what was missing.
C22_Witness ==
  \E p \in Procs :
    /\ pc[p] = "done" /\ out.op = "release"
    /\ trips[args[p].tripId].available_seats = trips[args[p].tripId].max_capacity
    /\ loc[p].before + args[p].numSeats > trips[args[p].tripId].max_capacity


\* ---- concurrent units of work ------------------------------------------------
\* A one-seat PENDING_PAYMENT booking of trip 1 exists, created at tick 0,
\* and every process has a request in hand for which BEGIN has been sent:
\* a create for trip 1, a cancel of the booking, a webhook event for it, or
\* (once the booking is past its deadline) a run of the expiry job that
\* listed it.
UnitRequests ==
  [ op : {"book"}, args : [tripId : {1}, user_id : {"u1"}, num_seats : 1..MaxCap] ]
  \cup [ op : {"cancel"}, args : {[bookingId |-> 1]} ]
  \cup [ op : {"webhook"},
         args : [ booking_id : {1}, status : {"success", "failed", "other"},
                  idempotency_key : {"k1"}, payment_reference : {""} ] ]
  \cup [ op : {"sweep"}, args : {[id |-> 1, trip_id |-> 1, num_seats |-> 1]} ]

UnitInit ==
  /\ \E d \in TripData :
       /\ d[1].max_capacity = MaxCap
       /\ trips = [t \in TripIds |->
                     IF t = 1
                       THEN [TripService_create(d[t]) EXCEPT
                               !.available_seats = @ - 1]
                       ELSE TripService_create(d[t])]
       /\ bookings = << BookingService_create(
                          [trip_id |-> 1, user_id |-> "u1", num_seats |-> 1,
                           price_at_booking |-> d[1].price,
                           idempotency_key |-> <<"uuid", 1>>,
                           expires_at |-> expiryMinutes]) >>
  /\ \A t \in TripIds : trips_check(trips[t])
  /\ tripLock = [t \in TripIds |-> 0]
  /\ bookingLock = [b \in BookingIds |-> 0]
  /\ now \in 0..MaxTime
  /\ \E r \in [Procs -> UnitRequests] :
       /\ \A p \in Procs : r[p].op = "sweep" => 1 \in findExpiredPending
       /\ op = [p \in Procs |-> r[p].op]
       /\ args = [p \in Procs |-> r[p].args]
       /\ tx = [p \in Procs |->
                  IF r[p].op = "cancel" THEN [NoTx EXCEPT !.start = now] ELSE NoTx]
       /\ resp = [p \in Procs |-> IF r[p].op = "sweep" THEN SweepRun ELSE NoResp]
  /\ pc = [p \in Procs |-> "lock"]
  /\ loc = [p \in Procs |-> NoRow]
  /\ stale = [p \in Procs |-> {}]
  /\ out = NoOut

\* The steps a handler takes by itself once the store answers: it obtains its
\* row lock, sends its statements, commits or rolls back.
UnitStep(p) ==
  \/ BookLock(p) \/ CancelLock(p) \/ WebhookLock(p) \/ SweepLock(p)
  \/ Increment(p) \/ Rollback(p) \/ Commit(p) \/ Catch(p)

\* A statement, the COMMIT or the ROLLBACK of the catch block is rejected.
UnitFailure(p) == Fail(p) \/ CommitFail(p) \/ CatchFail(p)

UnitNext == \E p \in Procs : UnitStep(p) \/ UnitFailure(p)

\* The store answers every statement in the end, and a lock that has become
\* free is granted to a transaction waiting for it: a handler whose next
\* step stays possible takes it.  Failures may or may not happen.
SpecUnits ==
  UnitInit /\ [][UnitNext]_vars /\ \A p \in Procs : WF_vars(UnitStep(p))

\* ---- C23 ---------------------------------------------------------------------
\* C23: concurrent create, cancel, webhook and expiry-job units never wait
\* for each other in a cycle: with fair scheduling every unit that has sent
\* its BEGIN ends, committed or rolled back, holding no row lock and no
\* uncommitted write.
C23_EveryUnitEnds ==
  \A p \in Procs :
    (pc[p] # "idle")
      ~> ( /\ pc[p] = "idle" /\ op[p] = "idle" /\ tx[p] = NoTx
           /\ \A t \in TripIds : tripLock[t] # p
           /\ \A b \in BookingIds : bookingLock[b] # p )

\* A cancel before the cutoff holds the booking row and waits for the trip
\* row, which a create holds that is about to commit.
C23_Witness ==
  \E p, q \in Procs :
    /\ op[p] = "cancel" /\ pc[p] = "increment" /\ bookingLock[1] = p
    /\ op[q] = "book" /\ pc[q] = "commit" /\ tripLock[1] = q


\* ---- C24 ---------------------------------------------------------------------
\* The row locks a transaction holds.  A row it has inserted and not yet
\* committed is its own as well.
HoldsTrip(p) == \E t \in TripIds : tripLock[t] = p

HoldsBooking(p) ==
  \/ \E b \in BookingIds : bookingLock[b] = p
  \/ tx[p].bk.kind = "insert"

\* C24 as stated: a unit that holds both a trip and a booking is a create
\* and had the trip first; cancel, webhook and expiry-job units hold no
\* trip.
C24_OnlyCreateHoldsBoth ==
  [][ \A p \in Procs :
        /\ (HoldsTrip(p)' /\ HoldsBooking(p)')
             => /\ op'[p] = "book"
                /\ HoldsBooking(p) => HoldsTrip(p)
        /\ op'[p] \in {"cancel", "webhook", "sweep"} => ~HoldsTrip(p)' ]_vars

\* C24, amended: a create locks the trip row, inserts its booking under
\* that lock and locks no existing booking; every other unit locks the
\* booking row while it holds no trip row, and takes the trip row only
\* afterwards, with the UPDATE that gives back the seats of the booking it
\* is expiring or cancelling before the cutoff; a confirm and a cancel from
\* the cutoff on hold the booking alone.
C24_TripLockLast ==
  [][ \A p \in Procs :
        /\ op'[p] = "book"
             => /\ \A b \in BookingIds : bookingLock'[b] # p
                /\ HoldsBooking(p)' => HoldsTrip(p)'
        /\ (op'[p] # "book" /\ HoldsBooking(p)' /\ ~HoldsBooking(p))
             => ~HoldsTrip(p) /\ ~HoldsTrip(p)'
        /\ (op[p] # "book" /\ HoldsTrip(p)' /\ ~HoldsTrip(p))
             => /\ tx[p].bk.kind = "update"
                /\ bookingLock[tx[p].bk.id] = p
                /\ tripLock'[tx[p].bk.rec.trip_id] = p
                /\ tx[p].bk.rec.state \in {"EXPIRED", "CANCELLED"}
        /\ ( /\ tx'[p].bk.kind = "update"
             /\ \/ tx'[p].bk.rec.state = "CONFIRMED"
                \/ /\ tx'[p].bk.rec.state = "CANCELLED"
                   /\ loc'[p].daysUntilTrip
                        <= loc'[p].refundable_until_days_before )
             => ~HoldsTrip(p)' ]_vars

\* A cancel before the cutoff holds the booking row and the trip row and is
\* about to commit.
C24_Witness ==
  \E p \in Procs :
    /\ op[p] = "cancel" /\ pc[p] = "commit"
    /\ bookingLock[1] = p /\ tripLock[1] = p


\* ---- C25 ---------------------------------------------------------------------
\* C25: a booking row is inserted with price_at_booking = trip.price x
\* num_seats, and no later step (confirm, expire, cancel, by request, webhook
\* or expiry job) changes its price_at_booking, num_seats, trip_id, user_id,
\* idempotency_key or expires_at.
C25_SnapshotFieldsFixed ==
  [][ /\ Len(bookings') >= Len(bookings)
      /\ \A i \in 1..Len(bookings) :
           /\ bookings'[i].price_at_booking = bookings[i].price_at_booking
           /\ bookings'[i].num_seats = bookings[i].num_seats
           /\ bookings'[i].trip_id = bookings[i].trip_id
           /\ bookings'[i].user_id = bookings[i].user_id
           /\ bookings'[i].idempotency_key = bookings[i].idempotency_key
           /\ bookings'[i].expires_at = bookings[i].expires_at
      /\ \A i \in (Len(bookings) + 1)..Len(bookings') :
           bookings'[i].price_at_booking
             = trips[bookings'[i].trip_id].price * bookings'[i].num_seats ]_vars

\* A two-seat booking was cancelled with a refund and still carries the
\* price and the deadline it was created with.
C25_Witness ==
  \E i \in 1..Len(bookings) :
    /\ bookings[i].state = "CANCELLED" /\ bookings[i].refund_amount > 0
    /\ bookings[i].num_seats = 2
    /\ bookings[i].price_at_booking = 2 * trips[bookings[i].trip_id].price
    /\ bookings[i].expires_at = expiryMinutes


\* ---- C26 ---------------------------------------------------------------------
\* C26: whenever the committed available_seats of a trip changes, the same
\* step shows the booking change it belongs to and nothing else: it went
\* down by n together with a new PENDING_PAYMENT row of that trip for n
\* seats, or up by n together with one booking of that trip for n seats
\* going to EXPIRED or CANCELLED.
C26_SeatsChangeWithBooking ==
  [][ \A t \in TripIds :
        LET d == trips'[t].available_seats - trips[t].available_seats
            k == Len(bookings) IN
        d # 0 =>
          /\ \A u \in TripIds \ {t} : trips'[u] = trips[u]
          /\ IF d < 0
               THEN /\ Len(bookings') = k + 1
                    /\ \A i \in 1..k : bookings'[i] = bookings[i]
                    /\ bookings'[k + 1].state = "PENDING_PAYMENT"
                    /\ bookings'[k + 1].trip_id = t
                    /\ bookings'[k + 1].num_seats = 0 - d
               ELSE /\ Len(bookings') = k
                    /\ \E i \in 1..k :
                         /\ bookings[i].state \in {"PENDING_PAYMENT", "CONFIRMED"}
                         /\ bookings'[i].state \in {"EXPIRED", "CANCELLED"}
                         /\ bookings[i].trip_id = t
                         /\ bookings[i].num_seats = d
                         /\ \A j \in (1..k) \ {i} : bookings'[j] = bookings[j] ]_vars

\* A run of the expiry job has expired the two-seat booking and the trip has
\* all its seats again.
C26_Witness ==
  /\ out.op = "sweep" /\ out.resp.body = "returned" /\ out.resp.expired = 1
  /\ Len(bookings) = 1
  /\ bookings[1].state = "EXPIRED" /\ bookings[1].num_seats = 2
  /\ trips[1].available_seats = trips[1].max_capacity


\* ---- an unpaid booking and the expiry job -------------------------------------
\* A one-seat booking of trip 1 was created at tick 0 and is unpaid.  The
\* clock runs, webhook events for the booking may arrive (and their handling
\* may fail), and the expiry job runs again and again.
LiveInit ==
  /\ \E d \in TripData :
       /\ trips = [t \in TripIds |->
                     IF t = 1
                       THEN [TripService_create(d[t]) EXCEPT
                               !.available_seats = @ - 1]
                       ELSE TripService_create(d[t])]
       /\ bookings = << BookingService_create(
                          [trip_id |-> 1, user_id |-> "u1", num_seats |-> 1,
                           price_at_booking |-> d[1].price,
                           idempotency_key |-> <<"uuid", 1>>,
                           expires_at |-> expiryMinutes]) >>
  /\ \A t \in TripIds : trips_check(trips[t])
  /\ tripLock = [t \in TripIds |-> 0]
  /\ bookingLock = [b \in BookingIds |-> 0]
  /\ now = 0
  /\ op = [p \in Procs |-> "idle"]
  /\ pc = [p \in Procs |-> "idle"]
  /\ args = [p \in Procs |-> NoArgs]
  /\ loc = [p \in Procs |-> NoRow]
  /\ tx = [p \in Procs |-> NoTx]
  /\ stale = [p \in Procs |-> {}]
  /\ resp = [p \in Procs |-> NoResp]
  /\ out = NoOut

LiveNext ==
  \/ Tick
  \/ \E p \in Procs :
       \/ StartWebhook(p) \/ WebhookLock(p)
       \/ StartSweep(p) \/ SweepFindFail(p) \/ SweepLock(p)
       \/ Increment(p)
       \/ GetClientFail(p)
       \/ Rollback(p) \/ Commit(p) \/ Fail(p) \/ CommitFail(p)
       \/ Catch(p) \/ CatchFail(p)

\* The clock advances; cron starts the expiry job every minute
\* (startExpiryJob), so runs keep starting; a handler that can go on does,
\* up to its COMMIT or ROLLBACK; and the store, although any statement may
\* fail, does not fail the same kind of statement for ever: the job is
\* granted the row lock it waits for, and the UPDATE of the trip and the
\* COMMIT go through in the end.
LiveFairness ==
  /\ WF_vars(Tick)
  /\ SF_vars(\E p \in Procs : StartSweep(p))
  /\ WF_vars(\E p \in Procs : WebhookLock(p))
  /\ SF_vars(\E p \in Procs : SweepLock(p))
  /\ SF_vars(\E p \in Procs : Increment(p))
  /\ SF_vars(\E p \in Procs : Commit(p))
  /\ \A p \in Procs : WF_vars(Rollback(p)) /\ WF_vars(Catch(p))

SpecLive == LiveInit /\ [][LiveNext]_vars /\ LiveFairness

C28_ExpiredOnlyWhenDue ==
  [][ \A i \in 1..Len(bookings) :
        (bookings[i].state # "EXPIRED" /\ bookings'[i].state = "EXPIRED")
          => /\ bookings[i].state = "PENDING_PAYMENT"
             /\ \E p \in Procs :
                  /\ pc[p] = "commit" /\ tx'[p] = NoTx
                  /\ tx[p].bk.kind = "update" /\ tx[p].bk.id = i
                  /\ \/ /\ op[p] = "sweep"
                        /\ bookings[i].expires_at < now
                     \/ /\ op[p] = "webhook"
                        /\ \/ bookings[i].expires_at < now
                           \/ /\ args[p].status = "failed"
                              /\ loc[p].state = "PENDING_PAYMENT" ]_vars

\* The expiry job has expired the booking while a success event for it was
\* waiting for the row.
C28_Witness ==
  /\ out.op = "sweep" /\ out.resp.body = "returned" /\ out.resp.expired = 1
  /\ Len(bookings) = 1
  /\ bookings[1].state = "EXPIRED" /\ bookings[1].expires_at < now
  /\ \E q \in Procs :
       /\ op[q] = "webhook" /\ pc[q] = "lock"
       /\ args[q].booking_id = 1 /\ args[q].status = "success"


\* ---- C29 ---------------------------------------------------------------------
\* C29: a handler that has returned (answered, rejected or failed), and the
\* expiry job between two of its bookings, has no transaction open: it holds
\* no row lock on a trip or a booking and no uncommitted write; locks exist
\* only inside a unit of work that is between its first lock and its COMMIT
\* or ROLLBACK.
C29_NoHoldOutlivesUnit ==
  \A p \in Procs :
    /\ pc[p] \in {"idle", "lock"}
         => /\ ~HoldsTrip(p) /\ ~HoldsBooking(p)
            /\ tx[p].trip = 0 /\ tx[p].bk = NoWrite
    /\ pc[p] = "idle" => tx[p] = NoTx
    /\ (HoldsTrip(p) \/ HoldsBooking(p))
         => pc[p] \in {"increment", "commit", "rollback", "catch"}

\* A cancel ended with an internal error (500) after its transaction was
\* rolled back: every handler is idle, no row is locked and the booking is
\* as it was.
C29_Witness ==
  /\ out.op = "cancel" /\ out.resp.code = 500
  /\ \A p \in Procs : pc[p] = "idle"
  /\ \A t \in TripIds : tripLock[t] = 0
  /\ \A b \in BookingIds : bookingLock[b] = 0
  /\ Len(bookings) = 1 /\ bookings[1].state = "CONFIRMED"


\* ---- a trip whose refund policy is edited -------------------------------------
\* A one-seat booking of trip 1 exists, unpaid or confirmed, created at tick
\* 0 when the trip had the policy of TripData.  The policy columns of the
\* trip row are then updated in the store (no handler of the application
\* does it; the schema allows it and keeps updated_at by trigger), and
\* cancel requests arrive.
PolicyInit ==
  /\ \E d \in {d \in TripData : d[1].max_capacity = MaxCap} :
       /\ trips = [t \in TripIds |->
                     IF t = 1
                       THEN [TripService_create(d[t]) EXCEPT
                               !.available_seats = @ - 1]
                       ELSE TripService_create(d[t])]
       /\ \E state \in {"PENDING_PAYMENT", "CONFIRMED"} :
            bookings = << [BookingService_create(
                             [trip_id |-> 1, user_id |-> "u1", num_seats |-> 1,
                              price_at_booking |-> d[1].price,
                              idempotency_key |-> <<"uuid", 1>>,
                              expires_at |-> expiryMinutes])
                           EXCEPT !.state = state,
                                  !.payment_reference =
                                     IF state = "CONFIRMED" THEN "k1" ELSE ""] >>
  /\ \A t \in TripIds : trips_check(trips[t])
  /\ tripLock = [t \in TripIds |-> 0]
  /\ bookingLock = [b \in BookingIds |-> 0]
  /\ now = 0
  /\ op = [p \in Procs |-> "idle"]
  /\ pc = [p \in Procs |-> "idle"]
  /\ args = [p \in Procs |-> NoArgs]
  /\ loc = [p \in Procs |-> NoRow]
  /\ tx = [p \in Procs |-> NoTx]
  /\ stale = [p \in Procs |-> {}]
  /\ resp = [p \in Procs |-> NoResp]
  /\ out = NoOut

\* UPDATE trips SET refundable_until_days_before = .., cancellation_fee_percent = ..
\*  WHERE id = t, as one statement of its own: it waits for the row lock and
\* is subject to the CHECK constraints.
EditPolicy(t) ==
  /\ tripLock[t] = 0
  /\ \E days \in 0..1 : \E fee \in {10, 25} :
       LET r == [trips[t] EXCEPT !.refundable_until_days_before = days,
                                 !.cancellation_fee_percent = fee] IN
       /\ r # trips[t]
       /\ trips_check(r)
       /\ trips' = [trips EXCEPT ![t] = r]
  /\ out' = NoOut
  /\ UNCHANGED <<bookings, locks, now, procVars>>

PolicyNext ==
  \/ Tick
  \/ EditPolicy(1)
  \/ \E p \in Procs :
       \/ StartCancel(p) \/ CancelLock(p) \/ Increment(p)
       \/ Rollback(p) \/ Commit(p) \/ Fail(p) \/ CommitFail(p)
       \/ Catch(p) \/ CatchFail(p)

SpecPolicy == PolicyInit /\ [][PolicyNext]_vars

\* ---- C30 ---------------------------------------------------------------------
\* C30: when a cancel reads the booking under its lock, the eligibility and
\* the amount it decides are those of the trip row as it is at that moment:
\* the refund is due exactly if the days left exceed the trip's current
\* refundable_until_days_before, and the amount written is price_at_booking
\* less the trip's current cancellation_fee_percent, whatever the policy was
\* when the booking was created or confirmed.
C30_RefundUsesLivePolicy ==
  [][ \A p \in Procs : \A i \in 1..Len(bookings) :
        (CancelExamines(p, i) /\ tx'[p].bk # NoWrite)
          => LET t == trips[bookings[i].trip_id]
                 due == DaysUntilTrip(t.start_date, now)
                          > t.refundable_until_days_before
             IN /\ tx'[p].bk.rec.state = "CANCELLED"
                /\ (pc'[p] = "increment") = due
                /\ tx'[p].bk.rec.refund_amount \in
                     (IF due
                        THEN RefundAmounts(bookings[i].price_at_booking,
                                           t.cancellation_fee_percent)
                        ELSE {0}) ]_vars

\* The trip was created with a fee of 10 percent and a cutoff of 1 day; the
\* fee was raised to 25 percent and the cutoff lowered to 0 days afterwards,
\* and a cancel on the last day before the old cutoff has refunded 75
\* percent of the 115 paid.
C30_Witness ==
  /\ out.op = "cancel" /\ out.resp = Response(200, "CANCELLED")
  /\ now = 1
  /\ trips[1].cancellation_fee_percent = 25
  /\ trips[1].refundable_until_days_before = 0
  /\ bookings[1].state = "CANCELLED" /\ bookings[1].refund_amount = 86
  /\ trips[1].available_seats = trips[1].max_capacity


\* ---- the seeded database --------------------------------------------------------
\* The container starts the application on a database filled by the seed
\* script (npm run migrate && npm run seed && npm start).  Of its rows: a
\* trip far ahead with an unpaid booking, and a trip three days ahead, with
\* a cutoff of five days, that has a confirmed booking and a booking
\* cancelled two days ago with refund_amount 0 ("after cutoff").  The script
\* sets available_seats = max_capacity - (seats of the CONFIRMED and
\* PENDING_PAYMENT rows).
SeedTrips ==
  << [ max_capacity |-> MaxCap, status |-> "PUBLISHED", price |-> 10000,
       start_date |-> 30 * msPerDay, refundable_until_days_before |-> 7,
       cancellation_fee_percent |-> 10 ],
     [ max_capacity |-> MaxCap, status |-> "PUBLISHED", price |-> 18000,
       start_date |-> 3 * msPerDay, refundable_until_days_before |-> 5,
       cancellation_fee_percent |-> 20 ] >>

SeedBookings ==
  << [ trip_id |-> 1, num_seats |-> 1, state |-> "PENDING_PAYMENT",
       payment_reference |-> "", expires_at |-> expiryMinutes,
       cancelled_at |-> NULL, refund_amount |-> NULL ],
     [ trip_id |-> 2, num_seats |-> 1, state |-> "CONFIRMED",
       payment_reference |-> "PAY-BALI-0", expires_at |-> 0 - 4 * expiryMinutes,
       cancelled_at |-> NULL, refund_amount |-> NULL ],
     [ trip_id |-> 2, num_seats |-> 1, state |-> "CANCELLED",
       payment_reference |-> "", expires_at |-> 0 - 4 * expiryMinutes,
       cancelled_at |-> 0 - 2 * msPerDay, refund_amount |-> 0 ] >>

\* Seats the seed script counts for trip t among its first n rows.
RECURSIVE seatAdjustments(_, _)
seatAdjustments(t, n) ==
  IF n = 0 THEN 0
  ELSE seatAdjustments(t, n - 1)
       + (IF /\ SeedBookings[n].trip_id = t
             /\ SeedBookings[n].state \in {"CONFIRMED", "PENDING_PAYMENT"}
            THEN SeedBookings[n].num_seats ELSE 0)

SeedInit ==
  /\ trips = [t \in TripIds |->
                [TripService_create(SeedTrips[t]) EXCEPT
                   !.available_seats =
                      SeedTrips[t].max_capacity
                        - seatAdjustments(t, Len(SeedBookings))]]
  /\ bookings = [i \in 1..Len(SeedBookings) |->
                   [ user_id |-> "u1",
                     price_at_booking |->
                       SeedTrips[SeedBookings[i].trip_id].price
                         * SeedBookings[i].num_seats,
                     idempotency_key |-> <<"uuid", i>> ] @@ SeedBookings[i]]
  /\ \A t \in TripIds : trips_check(trips[t])
  /\ tripLock = [t \in TripIds |-> 0]
  /\ bookingLock = [b \in BookingIds |-> 0]
  /\ now = 0
  /\ op = [p \in Procs |-> "idle"]
  /\ pc = [p \in Procs |-> "idle"]
  /\ args = [p \in Procs |-> NoArgs]
  /\ loc = [p \in Procs |-> NoRow]
  /\ tx = [p \in Procs |-> NoTx]
  /\ stale = [p \in Procs |-> {}]
  /\ resp = [p \in Procs |-> NoResp]
  /\ out = NoOut

\* Cancels and runs of the expiry job on the seeded rows, the clock running.
SeedNext ==
  \/ Tick
  \/ \E p \in Procs :
       \/ StartCancel(p) \/ CancelLock(p)
       \/ StartSweep(p) \/ SweepLock(p)
       \/ Increment(p)
       \/ Rollback(p) \/ Commit(p) \/ Fail(p) \/ CommitFail(p)
       \/ Catch(p) \/ CatchFail(p)

SpecSeeded == SeedInit /\ [][SeedNext]_vars

\* ---- C31 ---------------------------------------------------------------------
\* A booking row holds its seats while it is PENDING_PAYMENT or CONFIRMED,
\* and for good when it was cancelled at or after the cutoff (CANCELLED with
\* no refund: the seats were not released).
HoldsSeats(b) ==
  \/ b.state \in {"PENDING_PAYMENT", "CONFIRMED"}
  \/ b.state = "CANCELLED" /\ b.refund_amount = 0

RECURSIVE SeatsAllocatedUpTo(_, _)
SeatsAllocatedUpTo(t, n) ==
  IF n = 0 THEN 0
  ELSE SeatsAllocatedUpTo(t, n - 1)
       + (IF bookings[n].trip_id = t /\ HoldsSeats(bookings[n])
            THEN bookings[n].num_seats ELSE 0)

\* C31: in every state, for every trip, available_seats = max_capacity minus
\* the seats of its bookings that hold seats.
C31_SeatConservation ==
  \A t \in TripIds :
    trips[t].available_seats
      = trips[t].max_capacity - SeatsAllocatedUpTo(t, Len(bookings))


\* ---- C32 ---------------------------------------------------------------------
\* C32: every incrementSeats sent by the expiry job, by a late or failed
\* webhook or by a cancel before the cutoff finds available_seats +
\* num_seats <= max_capacity on the locked trip row, so LEAST(.., max_capacity)
\* does not cut anything off: the UPDATE, and the commit that makes it
\* visible, raise available_seats by exactly num_seats.
C32_CapNeverBites ==
  [][ \A p \in Procs :
        LET booking == IF op[p] = "sweep" THEN args[p] ELSE loc[p] IN
        /\ (pc[p] = "increment" /\ pc'[p] = "commit")
             => /\ trips[booking.trip_id].available_seats + booking.num_seats
                     <= trips[booking.trip_id].max_capacity
                /\ tx'[p].trip = booking.trip_id
                /\ tx'[p].delta = booking.num_seats
        /\ (pc[p] = "commit" /\ tx[p].trip # 0 /\ tx[p].delta > 0
              /\ trips' # trips)
             => trips'[tx[p].trip].available_seats
                  = trips[tx[p].trip].available_seats + booking.num_seats ]_vars

\* The expiry job has sent incrementSeats for a two-seat booking of a trip
\* with two seats, none of them available: the UPDATE adds both.
C32_Witness ==
  \E p \in Procs :
    /\ op[p] = "sweep" /\ pc[p] = "commit"
    /\ args[p].num_seats = 2 /\ tx[p].delta = 2
    /\ trips[args[p].trip_id].available_seats = 0
    /\ trips[args[p].trip_id].max_capacity = 2


\* ---- C33 ---------------------------------------------------------------------
\* C33: a booking is cancelled with a positive refund_amount only out of
\* CONFIRMED, with its payment_reference set; a booking cancelled out of
\* PENDING_PAYMENT gets refund_amount = 0; and so every row with a positive
\* refund_amount carries a payment_reference.
C33_RefundOnlyIfPaid ==
  [][ \A i \in 1..Len(bookings) :
        /\ (bookings[i].state # "CANCELLED" /\ bookings'[i].state = "CANCELLED")
             => /\ bookings'[i].refund_amount > 0
                     => /\ bookings[i].state = "CONFIRMED"
                        /\ bookings[i].payment_reference # ""
                /\ bookings[i].state = "PENDING_PAYMENT"
                     => bookings'[i].refund_amount = 0
        /\ bookings'[i].refund_amount > 0
             => bookings'[i].payment_reference # "" ]_vars


\* ---- C34 ---------------------------------------------------------------------
\* C34: in every state, a booking row has refund_amount and cancelled_at set
\* (not NULL) exactly if its state is CANCELLED, and a refund_amount that is
\* set lies between 0 and price_at_booking.
C34_RefundFieldsMatchState ==
  \A i \in 1..Len(bookings) :
    /\ (bookings[i].refund_amount # NULL) <=> (bookings[i].state = "CANCELLED")
    /\ (bookings[i].cancelled_at # NULL) <=> (bookings[i].state = "CANCELLED")
    /\ bookings[i].refund_amount # NULL
         => /\ 0 <= bookings[i].refund_amount
            /\ bookings[i].refund_amount <= bookings[i].price_at_booking

\* A confirmed two-seat booking was cancelled on the day of the cutoff: the
\* row is CANCELLED, cancelled_at is the time of the request and
\* refund_amount is 0.
C34_Witness ==
  /\ Len(bookings) = 1
  /\ bookings[1].state = "CANCELLED" /\ bookings[1].payment_reference # ""
  /\ bookings[1].num_seats = 2
  /\ bookings[1].cancelled_at = 1 /\ bookings[1].refund_amount = 0


\* ---- C35 ---------------------------------------------------------------------
\* C35: a PENDING_PAYMENT or EXPIRED row has no payment_reference and a
\* CONFIRMED row has one; the column is written only by the step that
\* confirms the booking, which sets it to a non-empty value, and no later
\* step changes it: a CANCELLED row carries one exactly if it was cancelled
\* out of CONFIRMED.
C35_PaymentReferenceTracksConfirm ==
  [][ /\ \A i \in 1..Len(bookings') :
           /\ bookings'[i].state \in {"PENDING_PAYMENT", "EXPIRED"}
                => bookings'[i].payment_reference = ""
           /\ bookings'[i].state = "CONFIRMED"
                => bookings'[i].payment_reference # ""
      /\ \A i \in 1..Len(bookings) :
           /\ bookings'[i].payment_reference # bookings[i].payment_reference
                => /\ bookings[i].state = "PENDING_PAYMENT"
                   /\ bookings'[i].state = "CONFIRMED"
                   /\ bookings[i].payment_reference = ""
           /\ (bookings[i].state # "CANCELLED" /\ bookings'[i].state = "CANCELLED")
                => ((bookings'[i].payment_reference # "")
                      <=> (bookings[i].state = "CONFIRMED")) ]_vars

\* A booking confirmed by an event with payment_reference "ref1" was
\* cancelled with a refund and still carries "ref1".
C35_Witness ==
  /\ out.op = "cancel"
  /\ Len(bookings) = 1
  /\ bookings[1].state = "CANCELLED" /\ bookings[1].payment_reference = "ref1"
  /\ bookings[1].refund_amount > 0


\* ---- C36 ---------------------------------------------------------------------
\* Scenario: one booking of one seat is waiting for its payment; the trip
\* starts in two or in three days, so that when the payment window is over
\* the cutoff has or has not been reached.  Cancel requests, webhooks and
\* runs of the expiry job arrive in any order.
StaleInit ==
  /\ \E d \in {d \in TripData : d[1].max_capacity = MaxCap} :
     \E start \in {2 * msPerDay, 3 * msPerDay} :
       /\ trips = [t \in TripIds |->
                     IF t = 1
                       THEN [TripService_create([d[t] EXCEPT !.start_date = start])
                               EXCEPT !.available_seats = @ - 1]
                       ELSE TripService_create(d[t])]
       /\ bookings = << BookingService_create(
                          [trip_id |-> 1, user_id |-> "u1", num_seats |-> 1,
                           price_at_booking |-> d[1].price,
                           idempotency_key |-> <<"uuid", 1>>,
                           expires_at |-> expiryMinutes]) >>
  /\ \A t \in TripIds : trips_check(trips[t])
  /\ tripLock = [t \in TripIds |-> 0]
  /\ bookingLock = [b \in BookingIds |-> 0]
  /\ now = 0
  /\ op = [p \in Procs |-> "idle"]
  /\ pc = [p \in Procs |-> "idle"]
  /\ args = [p \in Procs |-> NoArgs]
  /\ loc = [p \in Procs |-> NoRow]
  /\ tx = [p \in Procs |-> NoTx]
  /\ stale = [p \in Procs |-> {}]
  /\ resp = [p \in Procs |-> NoResp]
  /\ out = NoOut

StaleNext ==
  \/ Tick
  \/ \E p \in Procs :
       \/ StartCancel(p) \/ CancelLock(p)
       \/ StartWebhook(p) \/ WebhookLock(p)
       \/ StartSweep(p) \/ SweepLock(p)
       \/ Increment(p)
       \/ Rollback(p) \/ Commit(p) \/ Fail(p) \/ CommitFail(p)
       \/ Catch(p) \/ CatchFail(p)

SpecStale == StaleInit /\ [][StaleNext]_vars

\* C36: a cancel that locks a PENDING_PAYMENT booking whose expires_at has
\* passed writes CANCELLED; the refund is the fee-reduced price and the seats
\* go back exactly if the days left exceed the trip's cutoff, otherwise the
\* refund is 0 and no seat goes back.  A webhook or a run of the expiry job
\* that then locks the CANCELLED row rolls back without a write, and the row
\* and the seat count of its trip stay as the cancel left them.
C36_CancelIgnoresDeadline ==
  [][ /\ \A p \in Procs :
           /\ ( /\ op[p] = "cancel" /\ pc[p] = "lock"
                /\ pc'[p] \notin {"lock", "catch"}
                /\ args[p].bookingId \in 1..Len(bookings)
                /\ bookings[args[p].bookingId].state = "PENDING_PAYMENT"
                /\ bookings[args[p].bookingId].expires_at < now )
                => LET b == bookings[args[p].bookingId]
                       t == trips[b.trip_id]
                       before == DaysUntilTrip(t.start_date, now)
                                   > t.refundable_until_days_before
                   IN /\ tx'[p].bk.kind = "update"
                      /\ tx'[p].bk.id = args[p].bookingId
                      /\ tx'[p].bk.rec.state = "CANCELLED"
                      /\ tx'[p].bk.rec.refund_amount \in
                           (IF before
                              THEN RefundAmounts(b.price_at_booking,
                                                 t.cancellation_fee_percent)
                              ELSE {0})
                      /\ pc'[p] = IF before THEN "increment" ELSE "commit"
           /\ ( /\ op[p] = "cancel" /\ pc[p] = "commit" /\ pc'[p] = "idle" )
                => trips'[loc[p].trip_id].available_seats
                     = trips[loc[p].trip_id].available_seats
                         + (IF loc[p].isBeforeCutoff THEN loc[p].num_seats ELSE 0)
           /\ ( /\ op[p] \in {"sweep", "webhook"} /\ pc[p] = "lock"
                /\ pc'[p] \notin {"lock", "catch", "idle"}
                /\ loc'[p] # NoRow /\ loc'[p].state = "CANCELLED" )
                => pc'[p] = "rollback" /\ tx'[p] = tx[p]
      /\ \A i \in 1..Len(bookings) :
           bookings[i].state = "CANCELLED"
             => /\ bookings'[i] = bookings[i]
                /\ trips'[bookings[i].trip_id].available_seats
                     = trips[bookings[i].trip_id].available_seats ]_vars

\* The expiry job selected the stale booking, a cancel that began after the
\* payment window then cancelled it with a refund, and the job, holding the
\* lock now, finds the row CANCELLED.
C36_Witness ==
  \E p \in Procs :
    /\ op[p] = "sweep" /\ pc[p] = "rollback"
    /\ loc[p] # NoRow /\ loc[p].state = "CANCELLED"
    /\ loc[p].cancelled_at > loc[p].expires_at
    /\ loc[p].refund_amount > 0
    /\ trips[loc[p].trip_id].available_seats = trips[loc[p].trip_id].max_capacity


\* ---- C37 ---------------------------------------------------------------------
\* The row a process has asked the lock for.
TargetBooking(p) ==
  CASE op[p] = "cancel" -> args[p].bookingId
    [] op[p] = "webhook" -> args[p].booking_id
    [] op[p] = "sweep" -> args[p].id
    [] OTHER -> NoBooking

\* C37: a booking that was cancelled at or after the cutoff (CANCELLED with
\* no refund) keeps its seats: from then on its row does not change, its
\* trip's available_seats does not rise and stays at least num_seats below
\* max_capacity, and a cancel, a webhook or a run of the expiry job that
\* locks the row ends with ROLLBACK without having written anything.
C37_RetainedSeatsStay ==
  [][ \A i \in 1..Len(bookings) :
        (bookings[i].state = "CANCELLED" /\ bookings[i].refund_amount = 0)
          => LET t == bookings[i].trip_id IN
             /\ bookings'[i] = bookings[i]
             /\ trips'[t].available_seats <= trips[t].available_seats
             /\ trips'[t].available_seats + bookings[i].num_seats
                  <= trips'[t].max_capacity
             /\ \A p \in Procs :
                  ( /\ pc[p] = "lock" /\ TargetBooking(p) = i
                    /\ pc'[p] \notin {"lock", "catch", "idle"} )
                    => /\ pc'[p] = "rollback"
                       /\ tx'[p].bk = NoWrite /\ tx'[p].trip = 0 ]_vars

\* A booking of two seats was cancelled at the cutoff; a second cancel of it
\* has just been refused, and both seats are still withheld.
C37_Witness ==
  /\ out.op = "cancel" /\ out.resp.body = "ALREADY_TERMINAL"
  /\ Len(bookings) = 1
  /\ bookings[1].state = "CANCELLED" /\ bookings[1].refund_amount = 0
  /\ bookings[1].num_seats = 2
  /\ trips[1].available_seats = 0 /\ trips[1].max_capacity = 2


\* ---- C38 ---------------------------------------------------------------------
\* Scenario: two runs side by side.  Trips 1 and 2 are alike and each has one
\* unpaid booking of one seat; bookings 1 and 2 differ in their id, their trip
\* and their own idempotency_key only.  Every event is delivered twice at the
\* same instant, to booking 1 by process 1 and to booking 2 by process 2, and
\* the two deliveries differ in the event's idempotency_key only.
EventKeys == {<<"uuid", 1>>, <<"uuid", 2>>, <<"evt", 1>>}

KeyInit ==
  /\ \E d \in {d \in TripData : d[1].max_capacity = MaxCap} :
       /\ trips = [t \in TripIds |->
                     [TripService_create(d[1]) EXCEPT !.available_seats = @ - 1]]
       /\ bookings = [b \in 1..2 |->
                        BookingService_create(
                          [trip_id |-> b, user_id |-> "u1", num_seats |-> 1,
                           price_at_booking |-> d[1].price,
                           idempotency_key |-> <<"uuid", b>>,
                           expires_at |-> expiryMinutes])]
  /\ \A t \in TripIds : trips_check(trips[t])
  /\ tripLock = [t \in TripIds |-> 0]
  /\ bookingLock = [b \in BookingIds |-> 0]
  /\ now = 0
  /\ op = [p \in Procs |-> "idle"]
  /\ pc = [p \in Procs |-> "idle"]
  /\ args = [p \in Procs |-> NoArgs]
  /\ loc = [p \in Procs |-> NoRow]
  /\ tx = [p \in Procs |-> NoTx]
  /\ stale = [p \in Procs |-> {}]
  /\ resp = [p \in Procs |-> NoResp]
  /\ out = NoOut

\* Two webhook requests arrive together: the same status, no
\* payment_reference, and an idempotency_key each (none of them empty, so
\* both pass the check of the required fields); a client is obtained and
\* BEGIN is sent for each.
DeliverTwin ==
  /\ pc[1] = "idle" /\ pc[2] = "idle"
  /\ \E status \in {"success", "failed", "other"} :
     \E k1 \in EventKeys : \E k2 \in EventKeys \ {k1} :
       args' = [args EXCEPT
                  ![1] = [booking_id |-> 1, status |-> status,
                          idempotency_key |-> k1, payment_reference |-> ""],
                  ![2] = [booking_id |-> 2, status |-> status,
                          idempotency_key |-> k2, payment_reference |-> ""]]
  /\ op' = [op EXCEPT ![1] = "webhook", ![2] = "webhook"]
  /\ pc' = [pc EXCEPT ![1] = "lock", ![2] = "lock"]
  /\ out' = NoOut
  /\ UNCHANGED <<db, locks, now, loc, tx, stale, resp>>

\* The clock advances between deliveries, so that both runs of a pair read
\* the same time.
QuietTick ==
  /\ \A p \in Procs : pc[p] = "idle"
  /\ Tick

KeyNext ==
  \/ QuietTick
  \/ DeliverTwin
  \/ \E p \in {1, 2} :
       \/ WebhookLock(p) \/ Increment(p) \/ Commit(p) \/ Rollback(p)

SpecKeys == KeyInit /\ [][KeyNext]_vars

====
